---- MODULE Spec2Model ----
(***************************************************************************)
(* video-chapter-trimmer: the chapter parser / segment builder             *)
(* (parser.py, ChapterParser.parse_file) and the chapter remapper          *)
(* (chapter_writer.py, ChapterWriter.generate_edited_chapters), with the   *)
(* timestamp parsing and formatting of utils.py (TimeParser), the chapter  *)
(* file writer (ChapterWriter.write_chapter_file), the data classes of     *)
(* models.py, the ffmpeg front end (processor.py, VideoProcessor) and the  *)
(* command-line workflow (cli.py, VideoChapterTrimmer.run).                *)
(*                                                                         *)
(* A timedelta is an integer number of milliseconds.  An Optional value    *)
(* is a sequence of length 0 (None) or 1 (the value).  A title is a        *)
(* sequence of characters.  A timestamp text H+:MM:SS.mmm is a record of   *)
(* its four fields, each the sequence of its characters: a digit is its    *)
(* value 0..9, the minus sign is MinusSign.  An ffmpeg command is a        *)
(* sequence of arguments, each a record that tells a literal word, a       *)
(* timestamp text, a number of seconds, a list of offsets or a path.       *)
(***************************************************************************)
EXTENDS Integers, Sequences, FiniteSets, TLC

VARIABLES
    raw,              \* the lines of the chapter file, as stored
    exclude_prefix,   \* the configured exclusion prefix
    pc,               \* position in parse_file / generate_edited_chapters
    lines,            \* parse_file: the stripped non-blank lines
    i,                \* parse_file: enumerate(lines, 1) position
    current_start,    \* parse_file: Optional start of the open segment
    segments,         \* parse_file: list of VideoSegment
    chapters,         \* parse_file: list of Chapter
    error,            \* the exception parse_file raised, if any
    ci,               \* generate_edited_chapters: chapters already visited
    edited_chapters,  \* generate_edited_chapters: result list
    written,          \* write_chapter_file: Optional chapter list it was given
    output_chapter,   \* write_chapter_file: the lines of the file it wrote
    time_str,         \* TimeParser: the text handed to parse_timestamp
    tpc,              \* TimeParser: position in the sequence of calls
    parsed,           \* TimeParser: what parse_timestamp(time_str) gave
    formatted,        \* TimeParser: the text a format_for_* call returned
    reparsed,         \* TimeParser: what parse_timestamp(formatted) gave
    processor,        \* VideoProcessor: the fields of the instance
    ppc,              \* VideoProcessor: position in the method called
    pcall,            \* VideoProcessor: the method called and its arguments
    commands,         \* VideoProcessor: what _run_command was handed, in order
    subprocess_calls, \* VideoProcessor: what subprocess.run was handed, in order
    raised,           \* VideoProcessor: the exception the call raised, if any
    concat_file,      \* merge_segments: Optional content of concat_list.txt
    concat_written,   \* merge_segments: the call has written concat_list.txt
    output_files,     \* split_video_by_chapters: the list it returns
    si,               \* split_video_by_chapters: chapters already visited
    chapter_num,      \* split_video_by_chapters: counter of files
    instances,        \* two configurations: each a ChapterParser and a
                      \* ChapterWriter with their fields and call state
    run_args,         \* VideoChapterTrimmer: the command-line arguments
    run_env,          \* VideoChapterTrimmer: the files found, the answers given
    rpc,              \* VideoChapterTrimmer.run: position
    run_segments,     \* run: segments returned by parse_file
    run_chapters,     \* run: chapters returned by parse_file
    run_files,        \* run: segment_files
    run_events,       \* run: the calls made on processor and chapter_writer
    exit_code,        \* run: the value returned, -1 before the return
    temp_dir          \* run: the temporary directory

\* the chapter pipeline
pvars == <<raw, exclude_prefix, pc, lines, i, current_start, segments,
           chapters, error, ci, edited_chapters, written, output_chapter>>
\* direct calls of TimeParser
tvars == <<time_str, tpc, parsed, formatted, reparsed>>

\* direct calls of VideoProcessor
prvars == <<processor, ppc, pcall, commands, subprocess_calls, raised,
            concat_file, concat_written, output_files, si, chapter_num>>
\* what the chapter pipeline and the TimeParser calls leave alone
\* VideoChapterTrimmer
rvars == <<run_args, run_env, rpc, run_segments, run_chapters, run_files,
           run_events, exit_code, temp_dir>>
ovars == <<prvars, instances, rvars>>

vars == <<pvars, tvars, ovars>>

(***************************************************************************)
(* Bounds of the model.                                                    *)
(***************************************************************************)
\* the longest chapter file enumerated, in lines
MaxLines == 3
\* the largest timestamp (ms) the segment lookup is probed with
MaxProbe == 3

(***************************************************************************)
(* Generic helpers.                                                        *)
(***************************************************************************)
None == <<>>
Some(x) == <<x>>

RECURSIVE DigitsToInt(_)
DigitsToInt(ds) ==
    IF ds = <<>> THEN 0
    ELSE 10 * DigitsToInt(SubSeq(ds, 1, Len(ds) - 1)) + ds[Len(ds)]

\* str.startswith
StartsWith(title, prefix) ==
    /\ Len(prefix) <= Len(title)
    /\ SubSeq(title, 1, Len(prefix)) = prefix

\* the text of a timestamp: "<h>:<m>:<s>.<ms>"
TsText(h, m, s, ms) == [h |-> h, m |-> m, s |-> s, ms |-> ms]

(***************************************************************************)
(* utils.py: TimeParser                                                    *)
(***************************************************************************)
\* the character "-" in a timestamp text (not a digit)
MinusSign == -1

\* \d
IsDigits(cs) == \A k \in 1..Len(cs) : cs[k] \in 0..9

\* TIME_PATTERN = ^(\d+):(\d{2}):(\d{2})\.(\d{3})$
TIME_PATTERN(ts) ==
    /\ Len(ts.h) >= 1 /\ IsDigits(ts.h)
    /\ Len(ts.m) = 2 /\ IsDigits(ts.m)
    /\ Len(ts.s) = 2 /\ IsDigits(ts.s)
    /\ Len(ts.ms) = 3 /\ IsDigits(ts.ms)

\* faulty variant: the range check is "> 60"
parse_timestamp_gt60(ts) ==
    IF ~TIME_PATTERN(ts) THEN [ok |-> FALSE, td |-> 0]
    ELSE LET hours == DigitsToInt(ts.h)
             minutes == DigitsToInt(ts.m)
             seconds == DigitsToInt(ts.s)
             milliseconds == DigitsToInt(ts.ms)
         IN  IF minutes > 60 \/ seconds > 60
             THEN [ok |-> FALSE, td |-> 0]
             ELSE [ok |-> TRUE,
                   td |-> hours * 3600000 + minutes * 60000
                          + seconds * 1000 + milliseconds]

parse_timestamp(ts) ==
    IF ~TIME_PATTERN(ts) THEN [ok |-> FALSE, td |-> 0]
    ELSE LET hours == DigitsToInt(ts.h)
             minutes == DigitsToInt(ts.m)
             seconds == DigitsToInt(ts.s)
             milliseconds == DigitsToInt(ts.ms)
         IN  IF minutes >= 60 \/ seconds >= 60
             THEN [ok |-> FALSE, td |-> 0]
             ELSE [ok |-> TRUE,
                   td |-> hours * 3600000 + minutes * 60000
                          + seconds * 1000 + milliseconds]

\* str(n) for n >= 0
RECURSIVE IntToDigits(_)
IntToDigits(n) ==
    IF n < 10 THEN <<n>> ELSE Append(IntToDigits(n \div 10), n % 10)

\* zero fill on the left up to width characters
RECURSIVE ZeroFill(_, _)
ZeroFill(ds, width) ==
    IF Len(ds) >= width THEN ds ELSE ZeroFill(<<0>> \o ds, width)

\* f"{n:0{width}d}": the sign counts towards the width
FormatInt(n, width) ==
    IF n < 0 THEN <<MinusSign>> \o ZeroFill(IntToDigits(-n), width - 1)
    ELSE ZeroFill(IntToDigits(n), width)

\* hours = int(total_seconds // 3600): floor division
HoursOf(td) == td \div 3600000
\* minutes = int((total_seconds % 3600) // 60)
MinutesOf(td) == (td % 3600000) \div 60000
\* seconds = total_seconds % 60, in milliseconds.  The code computes in
\* floating point; below 2^43 seconds the result is exact to the millisecond
SecondsOf(td) == td % 60000

\* f"{seconds:06.3f}": two integer digits at least, three decimals
FormatSeconds(sec_ms) ==
    [s |-> ZeroFill(IntToDigits(sec_ms \div 1000), 2),
     ms |-> ZeroFill(IntToDigits(sec_ms % 1000), 3)]

\* faulty variant: the seconds are formatted with "{seconds:.3f}"
format_for_ffmpeg_unpadded(td) ==
    LET sec == SecondsOf(td)
    IN  TsText(FormatInt(HoursOf(td), 2), FormatInt(MinutesOf(td), 2),
               IntToDigits(sec \div 1000),
               ZeroFill(IntToDigits(sec % 1000), 3))

\* f"{hours:02d}:{minutes:02d}:{seconds:06.3f}"
format_for_ffmpeg(td) ==
    LET sec == FormatSeconds(SecondsOf(td))
    IN  TsText(FormatInt(HoursOf(td), 2), FormatInt(MinutesOf(td), 2),
               sec.s, sec.ms)

\* faulty variant: the minutes are formatted with "{minutes}"
format_for_chapter_unpadded(td) ==
    LET sec == FormatSeconds(SecondsOf(td))
    IN  TsText(FormatInt(HoursOf(td), 1), FormatInt(MinutesOf(td), 1),
               sec.s, sec.ms)

\* f"{hours}:{minutes:02d}:{seconds:06.3f}"
format_for_chapter(td) ==
    LET sec == FormatSeconds(SecondsOf(td))
    IN  TsText(FormatInt(HoursOf(td), 1), FormatInt(MinutesOf(td), 2),
               sec.s, sec.ms)

(***************************************************************************)
(* models.py                                                               *)
(***************************************************************************)
VideoSegment(start, end) == [start |-> start, end |-> end]
Chapter(timestamp, title) == [timestamp |-> timestamp, title |-> title]

\* bool(timedelta): a zero timedelta is falsy
Truthy(opt) == opt # None /\ opt[1] # 0

\* VideoSegment.duration: self.end - self.start if self.end else None
duration(seg) ==
    IF Truthy(seg.end) THEN Some(seg.end[1] - seg.start) ELSE None

(***************************************************************************)
(* The file's lines.  A raw line is whitespace only ("ws", n characters,    *)
(* the line break included: "\n" is WsLine(1)), a marker line              *)
(* "<timestamp> <title>", or free text without a timestamp.                *)
(***************************************************************************)
WsLine(n) == [kind |-> "ws", n |-> n, ts |-> <<>>, title |-> <<>>]
MarkerLine(ts, title) == [kind |-> "marker", n |-> 0, ts |-> ts, title |-> title]
TextLine == [kind |-> "text", n |-> 0, ts |-> <<>>, title |-> <<>>]

\* str.strip(): a whitespace-only line becomes the empty string
strip(line) == IF line.kind = "ws" THEN WsLine(0) ELSE line

\* truth value of a str: the empty string is falsy
NonEmptyStr(line) == ~(line.kind = "ws" /\ line.n = 0)

(***************************************************************************)
(* parser.py: ChapterParser                                                *)
(***************************************************************************)
NoError == [kind |-> "none", line |-> 0]
EmptyFileError == [kind |-> "empty", line |-> 0]
LineError(n) == [kind |-> "format", line |-> n]

\* faulty variant: the filter tests the unstripped line ("if line")
read_lines_no_strip(f) ==
    LET kept == SelectSeq(f, NonEmptyStr)
    IN  [k \in 1..Len(kept) |-> strip(kept[k])]

\* lines = [line.strip() for line in f if line.strip()]
read_lines(f) ==
    LET stripped == [k \in 1..Len(f) |-> strip(f[k])]
    IN  SelectSeq(stripped, NonEmptyStr)

\* LINE_PATTERN = ^(\d+:\d{2}:\d{2}\.\d{3})\s+(.*)$ ; _parse_line
parse_line(line) ==
    IF line.kind = "marker" /\ TIME_PATTERN(line.ts)
    THEN [ok |-> TRUE, timestamp |-> line.ts, title |-> line.title]
    ELSE [ok |-> FALSE, timestamp |-> <<>>, title |-> <<>>]

\* faulty variant: every inclusion marker starts a segment of its own
scan_marker_reopen(title, timestamp_td, prefix, cur, segs) ==
    IF StartsWith(title, prefix)
    THEN IF cur # None
         THEN [current_start |-> None,
               segments |-> Append(segs, VideoSegment(cur[1], Some(timestamp_td)))]
         ELSE [current_start |-> cur, segments |-> segs]
    ELSE IF cur = None
         THEN [current_start |-> Some(timestamp_td), segments |-> segs]
         ELSE [current_start |-> Some(timestamp_td),
               segments |-> Append(segs, VideoSegment(cur[1], Some(timestamp_td)))]

\* faulty variant: start and end swapped when a segment is closed
scan_marker_swapped(title, timestamp_td, prefix, cur, segs) ==
    IF StartsWith(title, prefix)
    THEN IF cur # None
         THEN [current_start |-> None,
               segments |-> Append(segs, VideoSegment(timestamp_td, Some(cur[1])))]
         ELSE [current_start |-> cur, segments |-> segs]
    ELSE IF cur = None
         THEN [current_start |-> Some(timestamp_td), segments |-> segs]
         ELSE [current_start |-> cur, segments |-> segs]

\* faulty variant: current_start is not reset when a segment is closed
scan_marker_noreset(title, timestamp_td, prefix, cur, segs) ==
    IF StartsWith(title, prefix)
    THEN IF cur # None
         THEN [current_start |-> cur,
               segments |-> Append(segs, VideoSegment(cur[1], Some(timestamp_td)))]
         ELSE [current_start |-> cur, segments |-> segs]
    ELSE IF cur = None
         THEN [current_start |-> Some(timestamp_td), segments |-> segs]
         ELSE [current_start |-> cur, segments |-> segs]

\* faulty variant: a closed segment is stored without its end
scan_marker_openend(title, timestamp_td, prefix, cur, segs) ==
    IF StartsWith(title, prefix)
    THEN IF cur # None
         THEN [current_start |-> None,
               segments |-> Append(segs, VideoSegment(cur[1], None))]
         ELSE [current_start |-> cur, segments |-> segs]
    ELSE IF cur = None
         THEN [current_start |-> Some(timestamp_td), segments |-> segs]
         ELSE [current_start |-> cur, segments |-> segs]

\* faulty variant: an exclusion marker closes a segment even when none
\* is open
scan_marker_closealways(title, timestamp_td, prefix, cur, segs) ==
    IF StartsWith(title, prefix)
    THEN [current_start |-> None,
          segments |-> Append(segs,
                          VideoSegment(IF cur # None THEN cur[1] ELSE timestamp_td,
                                       Some(timestamp_td)))]
    ELSE IF cur = None
         THEN [current_start |-> Some(timestamp_td), segments |-> segs]
         ELSE [current_start |-> cur, segments |-> segs]

\* faulty variant: every inclusion marker moves the start of the open segment
scan_marker_restart(title, timestamp_td, prefix, cur, segs) ==
    IF StartsWith(title, prefix)
    THEN IF cur # None
         THEN [current_start |-> None,
               segments |-> Append(segs, VideoSegment(cur[1], Some(timestamp_td)))]
         ELSE [current_start |-> cur, segments |-> segs]
    ELSE [current_start |-> Some(timestamp_td), segments |-> segs]

\* the segment accumulator of one loop iteration
scan_marker(title, timestamp_td, prefix, cur, segs) ==
    IF StartsWith(title, prefix)
    THEN IF cur # None
         THEN [current_start |-> None,
               segments |-> Append(segs, VideoSegment(cur[1], Some(timestamp_td)))]
         ELSE [current_start |-> cur, segments |-> segs]
    ELSE IF cur = None
         THEN [current_start |-> Some(timestamp_td), segments |-> segs]
         ELSE [current_start |-> cur, segments |-> segs]

\* faulty variant: an exclusion marker is not recorded as a chapter
store_chapter_skip_excluded(chaps, timestamp_td, title) ==
    IF StartsWith(title, exclude_prefix) THEN chaps
    ELSE Append(chaps, Chapter(timestamp_td, title))

\* chapters.append(Chapter(timestamp=timestamp_td, title=title))
store_chapter(chaps, timestamp_td, title) ==
    Append(chaps, Chapter(timestamp_td, title))

\* one iteration of  for i, line in enumerate(lines, 1)
loop_body(line, prefix, cur, segs, chaps) ==
    LET p == parse_line(line)
        t == parse_timestamp(p.timestamp)
        fail == [ok |-> FALSE, current_start |-> cur, segments |-> segs,
                 chapters |-> chaps]
    IN  IF ~p.ok THEN fail
        ELSE IF ~t.ok THEN fail
        ELSE LET sc == scan_marker(p.title, t.td, prefix, cur, segs)
             IN  [ok |-> TRUE, current_start |-> sc.current_start,
                  segments |-> sc.segments,
                  chapters |-> store_chapter(chaps, t.td, p.title)]

\* the number an error raised for lines[idx] cites: "Error at line {i}"
error_line(idx) == idx

\* faulty variant: a segment still open after the last line is forgotten
close_unclosed_dropped(cur, segs) == segs

\* Handle unclosed segment
close_unclosed(cur, segs) ==
    IF cur # None THEN Append(segs, VideoSegment(cur[1], None)) ELSE segs

(***************************************************************************)
(* The input files of the model.                                           *)
(***************************************************************************)
D0 == <<0>>
D00 == <<0, 0>>
T0 == TsText(D0, D00, D00, <<0, 0, 0>>)      \* 0:00:00.000
T1 == TsText(D0, D00, D00, <<0, 0, 1>>)      \* 0:00:00.001
T2 == TsText(D0, D00, D00, <<0, 0, 2>>)      \* 0:00:00.002
TBadRange == TsText(D0, <<6, 0>>, D00, <<0, 0, 0>>)   \* 0:60:00.000

TitleA == <<"A">>
TitleDashB == <<"-", "B">>
TitleCM == <<"-", "-", "C", "M">>
Titles == {TitleA, TitleDashB, TitleCM}

\* ChapterParser.__init__ / ChapterWriter.__init__: exclude_prefix = "--"
DefaultPrefix == <<"-", "-">>
\* a custom prefix, as ChapterParser(exclude_prefix=...) allows
CustomPrefix == <<"-">>
Prefixes == {DefaultPrefix, CustomPrefix}

LineAlphabet ==
    {MarkerLine(ts, title) : ts \in {T0, T1, T2}, title \in Titles}
    \cup {MarkerLine(TBadRange, TitleA), TextLine, WsLine(1), WsLine(2)}

\* the scenario of test_parse_simple_file
ScenarioFile ==
    << MarkerLine(TsText(D0, D00, <<0, 5>>, <<1, 5, 1>>),
                  <<"O", "p", "e", "n", "i", "n", "g">>),
       MarkerLine(TsText(D0, <<0, 1>>, <<0, 5>>, <<8, 2, 2>>), TitleCM),
       MarkerLine(TsText(D0, <<0, 2>>, <<3, 6>>, <<1, 6, 0>>),
                  <<"M", "a", "i", "n", " ", "C", "o", "n", "t", "e", "n", "t">>),
       MarkerLine(TsText(D0, <<2, 6>>, <<2, 5>>, <<0, 6, 4>>), TitleCM),
       MarkerLine(TsText(D0, <<2, 8>>, <<2, 5>>, <<1, 7, 9>>),
                  <<"E", "n", "d", "i", "n", "g">>) >>

\* a file whose timestamps reach hours of one, two and three digits
HoursFile ==
    << MarkerLine(T0, TitleA),
       MarkerLine(TsText(<<1>>, <<3, 0>>, <<4, 5>>, <<5, 0, 0>>), TitleA),
       MarkerLine(TsText(<<1, 2>>, <<5, 9>>, <<5, 9>>, <<9, 9, 9>>), TitleDashB),
       MarkerLine(TsText(<<1, 0, 0>>, D00, D00, <<0, 0, 0>>), TitleA) >>

InputFiles ==
    UNION {[1..n -> LineAlphabet] : n \in 0..MaxLines}
    \cup {ScenarioFile, HoursFile}

(***************************************************************************)
(* chapter_writer.py: ChapterWriter                                        *)
(***************************************************************************)
\* faulty variant: the end of a bounded segment counts as inside
segment_contains_inclusive(segment, timestamp) ==
    IF segment.end = None
    THEN timestamp >= segment.start
    ELSE segment.start <= timestamp /\ timestamp <= segment.end[1]

\* faulty variant: the start bound is exclusive
segment_contains_strict_start(segment, timestamp) ==
    IF segment.end = None
    THEN timestamp > segment.start
    ELSE segment.start < timestamp /\ timestamp < segment.end[1]

\* segment.end is None / start <= timestamp < end
segment_contains(segment, timestamp) ==
    IF segment.end = None
    THEN timestamp >= segment.start
    ELSE segment.start <= timestamp /\ timestamp < segment.end[1]

\* _find_segment_for_timestamp; Python's index k is k + 1 here
RECURSIVE find_from(_, _, _)
find_from(k, timestamp, segs) ==
    IF k > Len(segs) THEN None
    ELSE IF segment_contains(segs[k], timestamp) THEN Some(k)
    ELSE find_from(k + 1, timestamp, segs)

find_segment_for_timestamp(timestamp, segs) == find_from(1, timestamp, segs)

\* for i in range(segment_index): if segments[i].duration: new_timestamp += ...
RECURSIVE previous_durations(_, _)
previous_durations(segs, n) ==
    IF n = 0 THEN 0
    ELSE previous_durations(segs, n - 1)
         + (IF Truthy(duration(segs[n])) THEN duration(segs[n])[1] ELSE 0)

\* faulty variant: the offset is taken as segment start minus timestamp
new_timestamp_swapped(chapter, segs, segment_index) ==
    previous_durations(segs, segment_index - 1)
    + (segs[segment_index].start - chapter.timestamp)

new_timestamp(chapter, segs, segment_index) ==
    previous_durations(segs, segment_index - 1)
    + (chapter.timestamp - segs[segment_index].start)

\* faulty variant: excluded chapters are not skipped
remap_chapter_no_skip(chapter, segs, prefix, edited) ==
    LET segment_index == find_segment_for_timestamp(chapter.timestamp, segs)
    IN  IF segment_index # None
        THEN Append(edited,
                    Chapter(new_timestamp(chapter, segs, segment_index[1]),
                            chapter.title))
        ELSE edited

\* one iteration of  for chapter in original_chapters
remap_chapter(chapter, segs, prefix, edited) ==
    IF StartsWith(chapter.title, prefix) THEN edited
    ELSE LET segment_index == find_segment_for_timestamp(chapter.timestamp, segs)
         IN  IF segment_index # None
             THEN Append(edited,
                         Chapter(new_timestamp(chapter, segs, segment_index[1]),
                                 chapter.title))
             ELSE edited

\* faulty variant: the timestamps are written in the ffmpeg format
write_chapter_file_ffmpeg(chaps) ==
    [k \in 1..Len(chaps) |->
        MarkerLine(format_for_ffmpeg(chaps[k].timestamp), chaps[k].title)]

\* f.write(f"{timestamp_str} {chapter.title}\n") for each chapter
write_chapter_file(chaps) ==
    [k \in 1..Len(chaps) |->
        MarkerLine(format_for_chapter(chaps[k].timestamp), chaps[k].title)]

(***************************************************************************)
(* processor.py: VideoProcessor.  A command is a list of arguments; an     *)
(* argument is a record: a literal word, a timestamp text, a number of     *)
(* seconds (written from a float, kept in milliseconds), a comma-separated *)
(* list of such numbers, or a file path with its suffix.                   *)
(***************************************************************************)
NoTs == TsText(<<>>, <<>>, <<>>, <<>>)
Lit(word) ==
    [kind |-> "lit", s |-> word, ext |-> "", ts |-> NoTs, n |-> 0, offs |-> <<>>,
     title |-> <<>>]
TimeArg(ts) ==
    [kind |-> "time", s |-> "", ext |-> "", ts |-> ts, n |-> 0, offs |-> <<>>,
     title |-> <<>>]
SecondsArg(ms) ==
    [kind |-> "seconds", s |-> "", ext |-> "", ts |-> NoTs, n |-> ms, offs |-> <<>>,
     title |-> <<>>]
OffsetsArg(list) ==
    [kind |-> "offsets", s |-> "", ext |-> "", ts |-> NoTs, n |-> 0, offs |-> list,
     title |-> <<>>]
PathArg(path) ==
    [kind |-> "path", s |-> path.stem, ext |-> path.suffix, ts |-> NoTs,
     n |-> path.num, offs |-> <<>>, title |-> path.title]

\* a Path: its name without the suffix, and the suffix
FilePath(stem, suffix) ==
    [stem |-> stem, suffix |-> suffix, num |-> 0, title |-> <<>>]

\* output_dir / (name_pattern.format(num=..., title=...) + suffix)
ChapterPath(num, title, suffix) ==
    [stem |-> "", suffix |-> suffix, num |-> num, title |-> title]

\* arg.endswith('.mp4')
EndsWithMp4(arg) == arg.ext = ".mp4"

\* the least index of cmd whose argument ends in .mp4, 0 when there is none
FirstEndingMp4(cmd) ==
    IF \E k \in 1..Len(cmd) : EndsWithMp4(cmd[k])
    THEN CHOOSE k \in 1..Len(cmd) :
            EndsWithMp4(cmd[k]) /\ \A j \in 1..(k - 1) : ~EndsWithMp4(cmd[j])
    ELSE 0

\* list.insert(k - 1, x): x becomes element k
InsertAt(seq, k, x) ==
    SubSeq(seq, 1, k - 1) \o <<x>> \o SubSeq(seq, k, Len(seq))

\* encoder_configs['nvenc']
NvencEncoder == "h264_nvenc"
NvencParams == <<Lit("-preset"), Lit("p4"), Lit("-tune"), Lit("hq"),
                 Lit("-profile:v"), Lit("high")>>

\* [-loglevel error] unless verbose
LogLevel(self) == IF self.verbose THEN <<>> ELSE <<Lit("-loglevel"), Lit("error")>>

\* _get_encoding_params for streams that carry no bit_rate / r_frame_rate
get_encoding_params(self, video_info) ==
    LET audio ==
            IF video_info # None /\ video_info[1].audio # "none"
            THEN IF video_info[1].audio = "aac"
                 THEN <<Lit("-c:a"), Lit("copy")>>
                 ELSE <<Lit("-c:a"), Lit("aac"), Lit("-b:a"), Lit("192k")>>
            ELSE <<Lit("-c:a"), Lit("aac"), Lit("-b:a"), Lit("192k")>>
    IN  IF self.gpu_encoder # None
        THEN <<Lit("-c:v"), Lit(self.gpu_encoder[1])>> \o NvencParams
             \o (IF video_info # None THEN <<Lit("-b:v"), Lit("5M")>> ELSE <<>>)
             \o audio
        ELSE IF video_info = None
        THEN <<Lit("-c:v"), Lit("libx264"), Lit("-crf"), Lit("18"),
               Lit("-preset"), Lit("medium"), Lit("-c:a"), Lit("aac"),
               Lit("-b:a"), Lit("192k")>>
        ELSE (IF video_info[1].video
              THEN <<Lit("-c:v"), Lit("libx264"), Lit("-crf"), Lit("18"),
                     Lit("-preset"), Lit("medium")>>
              ELSE <<>>)
             \o audio

\* _add_split_safe_params; Python's index k is k + 1 here
add_split_safe_params(cmd, segment, chaps) ==
    LET IsCodecOption(k) == cmd[k] = Lit("-c:v") /\ k + 1 <= Len(cmd)
        found == \E k \in 1..Len(cmd) : IsCodecOption(k)
        codec_idx == CHOOSE k \in 1..Len(cmd) :
                        IsCodecOption(k) /\ \A j \in 1..(k - 1) : ~IsCodecOption(j)
        codec == cmd[codec_idx + 1]
        gop == IF codec.s = "libx264"
               THEN <<Lit("-g"), Lit("60"), Lit("-keyint_min"), Lit("30"),
                      Lit("-sc_threshold"), Lit("0")>>
               ELSE IF codec.s = NvencEncoder
               THEN <<Lit("-g"), Lit("60"), Lit("-strict_gop"), Lit("1")>>
               ELSE <<>>
        cmd2 == cmd \o gop
        inside == SelectSeq(chaps,
                      LAMBDA c : /\ segment.start <= c.timestamp
                                 /\ (segment.end = None
                                      \/ c.timestamp < segment.end[1]))
        chapter_times == [k \in 1..Len(inside) |->
                             inside[k].timestamp - segment.start]
        output_idx == FirstEndingMp4(cmd2)
    IN  IF ~found THEN cmd
        ELSE IF chapter_times # <<>> /\ output_idx >= 2
        THEN InsertAt(InsertAt(cmd2, output_idx, Lit("-force_key_frames")),
                      output_idx + 1, OffsetsArg(chapter_times))
        ELSE cmd2

\* max(0, segment.start.total_seconds() - 10), in milliseconds
SeekBefore(segment) ==
    IF segment.start - 10000 > 0 THEN segment.start - 10000 ELSE 0

\* _build_accurate_extract_command, given what get_video_info returned
build_accurate_extract_command(self, input_file, output_file, segment, start_time, chaps, video_info) ==
    LET head ==
            IF self.reencode
            THEN <<Lit("ffmpeg"), Lit("-i"), PathArg(input_file),
                   Lit("-ss"), TimeArg(start_time)>>
                 \o get_encoding_params(self, video_info)
            ELSE <<Lit("ffmpeg"), Lit("-ss"), SecondsArg(SeekBefore(segment)),
                   Lit("-i"), PathArg(input_file),
                   Lit("-ss"), SecondsArg(segment.start - SeekBefore(segment))>>
                 \o (IF self.gpu_encoder # None
                     THEN <<Lit("-c:v"), Lit(self.gpu_encoder[1])>> \o NvencParams
                     ELSE <<Lit("-c:v"), Lit("libx264"), Lit("-crf"), Lit("18"),
                            Lit("-preset"), Lit("fast")>>)
                 \o <<Lit("-c:a"), Lit("copy")>>
        cmd == IF self.split_safe
               THEN add_split_safe_params(head, segment, chaps)
               ELSE head
    IN  cmd
        \o (IF Truthy(duration(segment))
            THEN <<Lit("-t"), TimeArg(format_for_ffmpeg(duration(segment)[1]))>>
            ELSE <<>>)
        \o <<Lit("-movflags"), Lit("+faststart"), PathArg(output_file), Lit("-y")>>
        \o LogLevel(self)

\* the list _build_fast_extract_command builds in its local cmd
fast_extract_cmd(self, input_file, output_file, segment, start_time) ==
    <<Lit("ffmpeg"), Lit("-ss"), TimeArg(start_time), Lit("-i"),
      PathArg(input_file), Lit("-c"), Lit("copy"),
      Lit("-avoid_negative_ts"), Lit("make_zero"),
      Lit("-movflags"), Lit("+faststart")>>
    \o (IF Truthy(duration(segment))
        THEN <<Lit("-t"), TimeArg(format_for_ffmpeg(duration(segment)[1]))>>
        ELSE <<>>)
    \o <<PathArg(output_file), Lit("-y")>>
    \o LogLevel(self)

\* _build_fast_extract_command: the function ends after building cmd, with
\* no return statement, so the caller receives None
build_fast_extract_command(self, input_file, output_file, segment, start_time) ==
    LET cmd == fast_extract_cmd(self, input_file, output_file, segment,
                                start_time)
    IN  None

\* _build_split_command
build_split_command(self, input_file, output_file, start_time, end_time) ==
    LET start_str == format_for_ffmpeg(start_time)
        limit == IF Truthy(end_time)
                 THEN <<Lit("-t"),
                        TimeArg(format_for_ffmpeg(end_time[1] - start_time))>>
                 ELSE <<>>
        copy == <<Lit("ffmpeg"), Lit("-ss"), TimeArg(start_str), Lit("-i"),
                  PathArg(input_file)>>
                \o limit
                \o <<Lit("-c"), Lit("copy"), Lit("-avoid_negative_ts"),
                     Lit("make_zero"), Lit("-movflags"), Lit("+faststart")>>
        safe == <<Lit("ffmpeg"), Lit("-i"), PathArg(input_file), Lit("-ss"),
                  TimeArg(start_str)>>
                \o limit
                \o (IF self.gpu_encoder # None
                    THEN <<Lit("-c:v"), Lit(self.gpu_encoder[1])>> \o NvencParams
                    ELSE <<Lit("-c:v"), Lit("libx264"), Lit("-crf"), Lit("18"),
                           Lit("-preset"), Lit("fast")>>)
                \o <<Lit("-c:a"), Lit("aac"), Lit("-b:a"), Lit("192k"),
                     Lit("-movflags"), Lit("+faststart")>>
    IN  (IF self.split_safe THEN safe ELSE copy)
        \o <<PathArg(output_file), Lit("-y")>>
        \o LogLevel(self)

\* the command of get_video_info
ffprobe_cmd(video_file) ==
    <<Lit("ffprobe"), Lit("-v"), Lit("error"), Lit("-print_format"),
      Lit("json"), Lit("-show_streams"), Lit("-show_format"),
      PathArg(video_file)>>

\* the command of _check_ffmpeg
ffmpeg_version_cmd == <<Lit("ffmpeg"), Lit("-version")>>

\* the command of _test_encoder
test_encoder_cmd(encoder) ==
    <<Lit("ffmpeg"), Lit("-f"), Lit("lavfi"), Lit("-i"),
      Lit("color=c=black:s=320x240:d=1"), Lit("-c:v"), Lit(encoder),
      Lit("-f"), Lit("null"), Lit("-")>>

\* the command of merge_segments
merge_cmd(self, concat_path, output_file) ==
    <<Lit("ffmpeg"), Lit("-f"), Lit("concat"), Lit("-safe"), Lit("0"),
      Lit("-i"), PathArg(concat_path), Lit("-c"), Lit("copy"),
      Lit("-movflags"), Lit("+faststart"), PathArg(output_file), Lit("-y")>>
    \o LogLevel(self)

\* output_file.parent / 'concat_list.txt'
ConcatPath == FilePath("concat_list", ".txt")

NoException == ""

\* _run_command(cmd, description) with a description that is not empty:
\* the calls of subprocess.run it makes and the exception it raises.
\* ' '.join(None) and subprocess.run(None) raise TypeError; exit_ok is the
\* exit status of the process, check=True turns a failure into an exception
run_command(self, cmd, exit_ok) ==
    IF self.dry_run
    THEN [calls |-> <<>>,
          exc |-> IF cmd = None THEN "TypeError" ELSE NoException]
    ELSE IF self.verbose /\ cmd = None
    THEN [calls |-> <<>>, exc |-> "TypeError"]
    ELSE [calls |-> <<cmd>>,
          exc |-> IF cmd = None THEN "TypeError"
                  ELSE IF exit_ok THEN NoException
                  ELSE "CalledProcessError"]

\* extract_segment, given what ffprobe answers and how ffmpeg exits: the
\* command handed to _run_command, the calls of subprocess.run in order,
\* and the exception raised
extract_segment(self, input_file, output_file, segment, chaps, video_info, exit_ok) ==
    LET start_time == format_for_ffmpeg(segment.start)
        precise == self.accurate \/ self.reencode
        cmd == IF precise
               THEN Some(build_accurate_extract_command(self, input_file,
                            output_file, segment, start_time, chaps,
                            video_info))
               ELSE build_fast_extract_command(self, input_file, output_file,
                                               segment, start_time)
        ran == run_command(self, cmd, exit_ok)
    IN  [cmd |-> cmd,
         calls |-> (IF precise THEN <<Some(ffprobe_cmd(input_file))>> ELSE <<>>)
                   \o ran.calls,
         exc |-> ran.exc]

\* characters re.sub(r'[<>:"/\\|?*]', '_', ...) replaces
UnsafeChars == {"<", ">", ":", "\"", "/", "\\", "|", "?", "*"}

\* re.sub(...)[:50]
safe_title(title) ==
    LET n == IF Len(title) < 50 THEN Len(title) ELSE 50
    IN  [k \in 1..n |-> IF title[k] \in UnsafeChars THEN "_" ELSE title[k]]

\* split_video_by_chapters: the timestamp of the next chapter, from list
\* position j on, whose title does not start with "--"
next_kept_timestamp(chaps, j) ==
    LET Kept_(k) == ~StartsWith(chaps[k].title, <<"-", "-">>)
    IN  IF \E k \in j..Len(chaps) : Kept_(k)
        THEN Some(chaps[CHOOSE k \in j..Len(chaps) :
                           Kept_(k) /\ \A m \in j..(k - 1) : ~Kept_(m)].timestamp)
        ELSE None

\* a faulty variant: the concat list names the files last to first
concat_content_reversed(segment_files) ==
    [k \in 1..Len(segment_files) |->
        [directive |-> "file",
         path |-> segment_files[Len(segment_files) + 1 - k]]]

\* merge_segments: the lines of the concat list, file '<path>' per file
concat_content(segment_files) ==
    [k \in 1..Len(segment_files) |->
        [directive |-> "file", path |-> segment_files[k]]]

(***************************************************************************)
(* The texts handed to TimeParser.parse_timestamp directly.                *)
(***************************************************************************)
HourFields == {<<>>, <<0>>, <<1>>, <<0, 1>>, <<1, 2>>, <<2, 6>>, <<1, 0, 0>>}
MinuteFields == {<<>>, <<2>>, D00, <<3, 0>>, <<5, 9>>, <<6, 0>>, <<6, 1>>}
SecondFields == {<<>>, <<3>>, D00, <<0, 5>>, <<4, 5>>, <<5, 9>>, <<6, 0>>,
                 <<6, 1>>}
MilliFields == {<<>>, <<5, 0>>, <<0, 0, 0>>, <<1, 5, 1>>, <<5, 0, 0>>,
                <<9, 9, 9>>}
TimeTexts ==
    {TsText(h, m, s, ms) : h \in HourFields, m \in MinuteFields,
                           s \in SecondFields, ms \in MilliFields}

\* no call of parse_timestamp has returned
NoResult == [ok |-> FALSE, td |-> 0]

\* no VideoProcessor has been constructed
NoProcessor ==
    [verbose |-> FALSE, dry_run |-> FALSE, accurate |-> FALSE,
     reencode |-> FALSE, split_safe |-> FALSE, gpu_encoder |-> None]
NoCall ==
    [method |-> "", input_file |-> FilePath("", ""),
     output_file |-> FilePath("", ""), segment |-> VideoSegment(0, None),
     chapters |-> <<>>, segment_files |-> <<>>, cleanup_concat |-> FALSE]
ProcessorOff ==
    /\ processor = NoProcessor
    /\ ppc = "off"
    /\ pcall = NoCall
    /\ commands = <<>>
    /\ subprocess_calls = <<>>
    /\ raised = NoException
    /\ concat_file = None
    /\ concat_written = FALSE
    /\ output_files = <<>>
    /\ si = 0
    /\ chapter_num = 0
\* a ChapterParser / ChapterWriter pair not constructed yet
NoInstance ==
    [pc |-> "new", argument |-> <<>>, exclude_prefix |-> <<>>, file |-> <<>>,
     lines |-> <<>>, i |-> 0, current_start |-> None, segments |-> <<>>,
     chapters |-> <<>>, ci |-> 0, edited_chapters |-> <<>>]
InstanceIds == {1, 2}
InstancesOff == instances = [id \in InstanceIds |-> NoInstance]
\* argparse.Namespace before main parsed the command line
NoArgs ==
    [split |-> FALSE, dry_run |-> FALSE, accurate |-> FALSE,
     no_chapters |-> FALSE, keep_temp |-> FALSE, temp_dir |-> FALSE]
NoEnv ==
    [chapter_file |-> <<>>, chapter_exists |-> FALSE, video_exists |-> FALSE,
     output_exists |-> FALSE, confirm |-> FALSE]
RunOff ==
    /\ run_args = NoArgs
    /\ run_env = NoEnv
    /\ run_segments = <<>>
    /\ run_chapters = <<>>
    /\ run_files = <<>>
    /\ run_events = <<>>
    /\ exit_code = -1
    /\ temp_dir = [created |-> FALSE, exists |-> FALSE]
OthersOff == ProcessorOff /\ InstancesOff /\ RunOff /\ rpc = "off"

(***************************************************************************)
(* The state machine: parse_file, then generate_edited_chapters on its     *)
(* result, then write_chapter_file, and the pipeline once more on the file *)
(* it wrote.                                                               *)
(***************************************************************************)
Init ==
    /\ raw \in InputFiles
    /\ exclude_prefix \in Prefixes
    /\ pc = "start"
    /\ lines = <<>>
    /\ i = 0
    /\ current_start = None
    /\ segments = <<>>
    /\ chapters = <<>>
    /\ error = NoError
    /\ ci = 0
    /\ edited_chapters = <<>>
    /\ written = None
    /\ output_chapter = <<>>
    /\ time_str = T0
    /\ tpc = "idle"
    /\ parsed = NoResult
    /\ formatted = T0
    /\ reparsed = NoResult
    /\ OthersOff

\* parse_file: read the file, refuse an empty one
ReadLines ==
    /\ pc = "start"
    /\ lines' = read_lines(raw)
    /\ IF lines' = <<>>
       THEN pc' = "failed" /\ error' = EmptyFileError /\ i' = i
       ELSE pc' = "loop" /\ error' = error /\ i' = 1
    /\ UNCHANGED <<raw, exclude_prefix, current_start, segments, chapters,
                   ci, edited_chapters>>
    /\ UNCHANGED <<written, output_chapter, tvars, ovars>>

\* parse_file: one line of the scan
ParseLine ==
    /\ pc = "loop"
    /\ i <= Len(lines)
    /\ LET r == loop_body(lines[i], exclude_prefix, current_start, segments,
                          chapters)
       IN  IF r.ok
           THEN /\ current_start' = r.current_start
                /\ segments' = r.segments
                /\ chapters' = r.chapters
                /\ i' = i + 1
                /\ UNCHANGED <<pc, error>>
           ELSE /\ pc' = "failed"
                /\ error' = LineError(error_line(i))
                /\ UNCHANGED <<current_start, segments, chapters, i>>
    /\ UNCHANGED <<raw, exclude_prefix, lines, ci, edited_chapters>>
    /\ UNCHANGED <<written, output_chapter, tvars, ovars>>

\* parse_file: after the last line
FinishParse ==
    /\ pc = "loop"
    /\ i > Len(lines)
    /\ segments' = close_unclosed(current_start, segments)
    /\ pc' = "parsed"
    /\ UNCHANGED <<raw, exclude_prefix, lines, i, current_start, chapters,
                   error, ci, edited_chapters>>
    /\ UNCHANGED <<written, output_chapter, tvars, ovars>>

\* generate_edited_chapters: one chapter
RemapChapter ==
    /\ pc = "parsed"
    /\ ci < Len(chapters)
    /\ edited_chapters' = remap_chapter(chapters[ci + 1], segments,
                                        exclude_prefix, edited_chapters)
    /\ ci' = ci + 1
    /\ UNCHANGED <<raw, exclude_prefix, pc, lines, i, current_start, segments,
                   chapters, error>>
    /\ UNCHANGED <<written, output_chapter, tvars, ovars>>

\* generate_edited_chapters: return edited_chapters
RemapReturn ==
    /\ pc = "parsed"
    /\ ci = Len(chapters)
    /\ pc' = "done"
    /\ UNCHANGED <<raw, exclude_prefix, lines, i, current_start, segments,
                   chapters, error, ci, edited_chapters>>
    /\ UNCHANGED <<written, output_chapter, tvars, ovars>>

\* cli.py run: if edited_chapters: write_chapter_file(edited_chapters, ...)
WriteChapterFile ==
    /\ pc = "done"
    /\ written = None
    /\ edited_chapters # <<>>
    /\ written' = Some(edited_chapters)
    /\ output_chapter' = write_chapter_file(edited_chapters)
    /\ pc' = "written"
    /\ UNCHANGED <<raw, exclude_prefix, lines, i, current_start, segments,
                   chapters, error, ci, edited_chapters>>
    /\ UNCHANGED <<tvars, ovars>>

\* write_chapter_file called with the empty list, which run does not do
WriteEmptyChapterFile ==
    /\ pc = "done"
    /\ written = None
    /\ edited_chapters = <<>>
    /\ written' = Some(edited_chapters)
    /\ output_chapter' = write_chapter_file(edited_chapters)
    /\ pc' = "written"
    /\ UNCHANGED <<raw, exclude_prefix, lines, i, current_start, segments,
                   chapters, error, ci, edited_chapters>>
    /\ UNCHANGED <<tvars, ovars>>

\* the tool is run again, on the chapter file written
RunAgain ==
    /\ pc = "written"
    /\ raw' = output_chapter
    /\ pc' = "start"
    /\ lines' = <<>>
    /\ i' = 0
    /\ current_start' = None
    /\ segments' = <<>>
    /\ chapters' = <<>>
    /\ ci' = 0
    /\ edited_chapters' = <<>>
    /\ UNCHANGED <<exclude_prefix, error, written, output_chapter>>
    /\ UNCHANGED <<tvars, ovars>>

Next ==
    \/ ReadLines
    \/ ParseLine
    \/ FinishParse
    \/ RemapChapter
    \/ RemapReturn
    \/ WriteChapterFile
    \/ WriteEmptyChapterFile
    \/ RunAgain

Spec == Init /\ [][Next]_vars

(***************************************************************************)
(* The state machine of TimeParser called directly: parse_timestamp on a   *)
(* text, one of the two formats on its result, parse_timestamp on that.    *)
(***************************************************************************)
InitTime ==
    /\ raw = <<>>
    /\ exclude_prefix = DefaultPrefix
    /\ pc = "idle"
    /\ lines = <<>>
    /\ i = 0
    /\ current_start = None
    /\ segments = <<>>
    /\ chapters = <<>>
    /\ error = NoError
    /\ ci = 0
    /\ edited_chapters = <<>>
    /\ written = None
    /\ output_chapter = <<>>
    /\ time_str \in TimeTexts
    /\ tpc = "call"
    /\ parsed = NoResult
    /\ formatted = T0
    /\ reparsed = NoResult
    /\ OthersOff

\* TimeParser.parse_timestamp(time_str)
ParseTimestamp ==
    /\ tpc = "call"
    /\ parsed' = parse_timestamp(time_str)
    /\ tpc' = IF parsed'.ok THEN "parsed" ELSE "raised"
    /\ UNCHANGED <<time_str, formatted, reparsed>>
    /\ UNCHANGED <<pvars, ovars>>

\* TimeParser.format_for_ffmpeg(td)
FormatForFfmpeg ==
    /\ tpc = "parsed"
    /\ formatted' = format_for_ffmpeg(parsed.td)
    /\ tpc' = "ffmpeg"
    /\ UNCHANGED <<time_str, parsed, reparsed>>
    /\ UNCHANGED <<pvars, ovars>>

\* TimeParser.format_for_chapter(td)
FormatForChapter ==
    /\ tpc = "parsed"
    /\ formatted' = format_for_chapter(parsed.td)
    /\ tpc' = "chapter"
    /\ UNCHANGED <<time_str, parsed, reparsed>>
    /\ UNCHANGED <<pvars, ovars>>

\* TimeParser.parse_timestamp(formatted)
ParseFormatted ==
    /\ tpc \in {"ffmpeg", "chapter"}
    /\ reparsed' = parse_timestamp(formatted)
    /\ tpc' = IF tpc = "ffmpeg" THEN "ffmpeg_back" ELSE "chapter_back"
    /\ UNCHANGED <<time_str, parsed, formatted>>
    /\ UNCHANGED <<pvars, ovars>>

NextTime ==
    \/ ParseTimestamp
    \/ FormatForFfmpeg
    \/ FormatForChapter
    \/ ParseFormatted

SpecTime == InitTime /\ [][NextTime]_vars

(***************************************************************************)
(* The state machine of VideoProcessor called directly: the constructor,   *)
(* then one of extract_segment, split_video_by_chapters, merge_segments.   *)
(* subprocess.run is the environment: it records what it is handed and     *)
(* answers nondeterministically.                                           *)
(***************************************************************************)
\* no chapter file is being processed
PipelineOff ==
    /\ raw = <<>>
    /\ exclude_prefix = DefaultPrefix
    /\ pc = "idle"
    /\ lines = <<>>
    /\ i = 0
    /\ current_start = None
    /\ segments = <<>>
    /\ chapters = <<>>
    /\ error = NoError
    /\ ci = 0
    /\ edited_chapters = <<>>
    /\ written = None
    /\ output_chapter = <<>>
\* no TimeParser call is being followed
TimeOff ==
    /\ time_str = T0
    /\ tpc = "idle"
    /\ parsed = NoResult
    /\ formatted = T0
    /\ reparsed = NoResult

TitleB == <<"B">>
TitleC == <<"C">>
TitleColon == <<"A", ":">>

\* input videos: one whose name ends in .mp4, one whose name does not
InputVideos == {FilePath("in", ".mp4"), FilePath("in", ".mkv")}
\* the segment file of cli.py: temp_dir / segment_000.mp4
SegmentOut == FilePath("segment_000", ".mp4")
SegmentOut2 == FilePath("segment_001", ".mp4")
MergedOut == FilePath("out", ".mp4")

ProcSegments ==
    {VideoSegment(0, Some(5000)), VideoSegment(5000, None),
     VideoSegment(15000, Some(20000)), VideoSegment(1000, Some(1000))}

\* the chapters handed to extract_segment for keyframe insertion
ExtractChapterLists ==
    {<<>>,
     <<Chapter(0, TitleA), Chapter(2000, TitleB)>>,
     <<Chapter(5000, TitleA), Chapter(16000, TitleB), Chapter(17500, TitleC)>>}

\* what get_video_info returns: None, or the streams ffprobe reported
VideoInfos ==
    {None, Some([video |-> TRUE, audio |-> "aac"]),
     Some([video |-> FALSE, audio |-> "none"])}

\* the chapter lists handed to split_video_by_chapters
SplitChapterLists ==
    {<<>>,
     <<Chapter(0, TitleA), Chapter(0, TitleB)>>,
     <<Chapter(0, TitleA), Chapter(1000, TitleCM), Chapter(2000, TitleDashB),
       Chapter(3000, TitleC)>>,
     <<Chapter(0, TitleCM)>>,
     <<Chapter(1000, TitleColon), Chapter(1000, TitleCM)>>}

MergeLists ==
    {<<>>, <<SegmentOut>>, <<SegmentOut, SegmentOut2>>,
     <<SegmentOut2, SegmentOut>>}

InitProc ==
    /\ PipelineOff
    /\ TimeOff
    /\ processor = NoProcessor
    /\ ppc = "new"
    /\ pcall = NoCall
    /\ commands = <<>>
    /\ subprocess_calls = <<>>
    /\ raised = NoException
    /\ concat_file \in {None, Some(<<>>)}
    /\ concat_written = FALSE
    /\ output_files = <<>>
    /\ si = 0
    /\ chapter_num = 0
    /\ InstancesOff
    /\ RunOff
    /\ rpc = "off"

\* VideoProcessor(verbose, dry_run, accurate, reencode, gpu, split_safe),
\* gpu being None or 'nvenc': _check_ffmpeg, then _configure_gpu_encoder
Construct ==
    /\ ppc = "new"
    /\ \E verbose, dry_run, accurate, reencode, split_safe, gpu \in BOOLEAN :
       \E ffmpeg_ok \in (IF dry_run THEN {TRUE} ELSE BOOLEAN) :
       \E encoder_ok \in (IF dry_run \/ ~gpu \/ ~ffmpeg_ok
                           THEN {TRUE} ELSE BOOLEAN) :
          /\ processor' =
                [verbose |-> verbose, dry_run |-> dry_run,
                 accurate |-> accurate, reencode |-> reencode,
                 split_safe |-> split_safe,
                 gpu_encoder |-> IF gpu /\ ffmpeg_ok /\ encoder_ok
                                 THEN Some(NvencEncoder) ELSE None]
          /\ subprocess_calls' =
                (IF dry_run THEN <<>> ELSE <<Some(ffmpeg_version_cmd)>>)
                \o (IF gpu /\ ffmpeg_ok /\ ~dry_run
                    THEN <<Some(test_encoder_cmd(NvencEncoder))>> ELSE <<>>)
          /\ raised' = IF ffmpeg_ok THEN NoException ELSE "RuntimeError"
          /\ ppc' = IF ffmpeg_ok THEN "ready" ELSE "returned"
    /\ pcall' = [NoCall EXCEPT !.method = "__init__"]
    /\ UNCHANGED <<commands, concat_file, concat_written, output_files, si,
                   chapter_num>>
    /\ UNCHANGED <<pvars, tvars, instances, rvars>>

\* extract_segment(input_file, output_file, segment, chapters)
ExtractSegment ==
    /\ ppc = "ready"
    /\ \E input_file \in InputVideos, segment \in ProcSegments,
          chaps \in ExtractChapterLists :
       \E video_info \in (IF processor.accurate \/ processor.reencode
                           THEN VideoInfos ELSE {None}) :
       \E exit_ok \in (IF processor.dry_run THEN {TRUE} ELSE BOOLEAN) :
          LET r == extract_segment(processor, input_file, SegmentOut, segment,
                                   chaps, video_info, exit_ok)
          IN  /\ pcall' = [NoCall EXCEPT !.method = "extract_segment",
                                         !.input_file = input_file,
                                         !.output_file = SegmentOut,
                                         !.segment = segment,
                                         !.chapters = chaps]
              /\ commands' = Append(commands, r.cmd)
              /\ subprocess_calls' = subprocess_calls \o r.calls
              /\ raised' = r.exc
    /\ ppc' = "returned"
    /\ UNCHANGED <<processor, concat_file, concat_written, output_files, si,
                   chapter_num>>
    /\ UNCHANGED <<pvars, tvars, instances, rvars>>

\* split_video_by_chapters(input_file, chapters, output_dir): up to the loop
SplitBegin ==
    /\ ppc = "ready"
    /\ \E input_file \in InputVideos, chaps \in SplitChapterLists :
          pcall' = [NoCall EXCEPT !.method = "split_video_by_chapters",
                                 !.input_file = input_file,
                                 !.chapters = chaps]
    /\ ppc' = "split"
    /\ output_files' = <<>>
    /\ si' = 0
    /\ chapter_num' = 0
    /\ UNCHANGED <<processor, commands, subprocess_calls, raised, concat_file,
                   concat_written>>
    /\ UNCHANGED <<pvars, tvars, instances, rvars>>

\* split_video_by_chapters: one pass of the loop over the chapters
SplitChapter ==
    /\ ppc = "split"
    /\ si < Len(pcall.chapters)
    /\ LET chapter == pcall.chapters[si + 1]
           output_path == ChapterPath(chapter_num + 1,
                                      safe_title(chapter.title),
                                      pcall.input_file.suffix)
           cmd == build_split_command(processor, pcall.input_file,
                      output_path, chapter.timestamp,
                      next_kept_timestamp(pcall.chapters, si + 2))
       IN  IF StartsWith(chapter.title, <<"-", "-">>)
           THEN /\ si' = si + 1
                /\ UNCHANGED <<ppc, commands, subprocess_calls, raised,
                               output_files, chapter_num>>
           ELSE \E exit_ok \in (IF processor.dry_run THEN {TRUE} ELSE BOOLEAN) :
                LET r == run_command(processor, Some(cmd), exit_ok)
                IN  /\ chapter_num' = chapter_num + 1
                    /\ commands' = Append(commands, Some(cmd))
                    /\ subprocess_calls' = subprocess_calls \o r.calls
                    /\ raised' = r.exc
                    /\ IF r.exc = NoException
                       THEN /\ output_files' = Append(output_files, output_path)
                            /\ si' = si + 1
                            /\ ppc' = "split"
                       ELSE /\ UNCHANGED <<output_files, si>>
                            /\ ppc' = "returned"
    /\ UNCHANGED <<processor, pcall, concat_file, concat_written>>
    /\ UNCHANGED <<pvars, tvars, instances, rvars>>

\* split_video_by_chapters: return output_files
SplitReturn ==
    /\ ppc = "split"
    /\ si = Len(pcall.chapters)
    /\ ppc' = "returned"
    /\ UNCHANGED <<processor, pcall, commands, subprocess_calls, raised,
                   concat_file, concat_written, output_files, si, chapter_num>>
    /\ UNCHANGED <<pvars, tvars, instances, rvars>>

\* merge_segments(segment_files, output_file, cleanup_concat): refuse an
\* empty list, else write the concat list
MergeWrite ==
    /\ ppc = "ready"
    /\ \E segment_files \in MergeLists, cleanup_concat \in BOOLEAN :
          /\ pcall' = [NoCall EXCEPT !.method = "merge_segments",
                                     !.output_file = MergedOut,
                                     !.segment_files = segment_files,
                                     !.cleanup_concat = cleanup_concat]
          /\ IF segment_files = <<>>
             THEN /\ raised' = "ValueError"
                  /\ ppc' = "returned"
                  /\ UNCHANGED <<concat_file, concat_written>>
             ELSE /\ concat_file' = Some(concat_content(segment_files))
                  /\ concat_written' = TRUE
                  /\ ppc' = "merge"
                  /\ UNCHANGED raised
    /\ UNCHANGED <<processor, commands, subprocess_calls, output_files, si,
                   chapter_num>>
    /\ UNCHANGED <<pvars, tvars, instances, rvars>>

\* merge_segments: build the concat command and hand it to _run_command
MergeRun ==
    /\ ppc = "merge"
    /\ \E exit_ok \in (IF processor.dry_run THEN {TRUE} ELSE BOOLEAN) :
       LET cmd == merge_cmd(processor, ConcatPath, pcall.output_file)
           r == run_command(processor, Some(cmd), exit_ok)
       IN  /\ commands' = Append(commands, Some(cmd))
           /\ subprocess_calls' = subprocess_calls \o r.calls
           /\ raised' = r.exc
    /\ ppc' = "finally"
    /\ UNCHANGED <<processor, pcall, concat_file, concat_written,
                   output_files, si, chapter_num>>
    /\ UNCHANGED <<pvars, tvars, instances, rvars>>

\* merge_segments: the finally clause, then return or re-raise
MergeFinally ==
    /\ ppc = "finally"
    /\ concat_file' = IF pcall.cleanup_concat /\ concat_file # None
                      THEN None ELSE concat_file
    /\ ppc' = "returned"
    /\ UNCHANGED <<processor, pcall, commands, subprocess_calls, raised,
                   concat_written, output_files, si, chapter_num>>
    /\ UNCHANGED <<pvars, tvars, instances, rvars>>

NextProc ==
    \/ Construct
    \/ ExtractSegment
    \/ SplitBegin
    \/ SplitChapter
    \/ SplitReturn
    \/ MergeWrite
    \/ MergeRun
    \/ MergeFinally

SpecProc == InitProc /\ [][NextProc]_vars

(***************************************************************************)
(* The state machine of two configurations in one process: each is a       *)
(* ChapterParser and a ChapterWriter constructed with one prefix, used on  *)
(* a file of its own; their constructors and steps interleave freely.      *)
(***************************************************************************)
\* a faulty variant: the prefix is kept in one place shared by every instance
set_prefix_shared(all, id, prefix) ==
    [k \in DOMAIN all |-> [all[k] EXCEPT !.exclude_prefix = prefix]]

\* self.exclude_prefix = exclude_prefix
set_prefix(all, id, prefix) ==
    [all EXCEPT ![id].exclude_prefix = prefix]

TwoFiles ==
    {<<MarkerLine(T0, TitleA), MarkerLine(T1, TitleDashB), MarkerLine(T2, TitleA)>>,
     <<MarkerLine(T0, TitleA), WsLine(1), MarkerLine(T1, TitleCM),
       MarkerLine(T2, TitleDashB)>>,
     <<MarkerLine(T0, TitleDashB), TextLine>>}

InitTwo ==
    /\ PipelineOff
    /\ TimeOff
    /\ ProcessorOff
    /\ InstancesOff
    /\ RunOff
    /\ rpc = "off"

\* ChapterParser(exclude_prefix=prefix) and ChapterWriter(exclude_prefix=prefix)
ConstructPair(id) ==
    /\ instances[id].pc = "new"
    /\ \E prefix \in Prefixes :
          instances' = set_prefix(
              [instances EXCEPT ![id].pc = "ready", ![id].argument = prefix],
              id, prefix)
    /\ UNCHANGED <<pvars, tvars, prvars, rvars>>

\* parse_file(file) of instance id: read the lines
TwoReadLines(id) ==
    /\ instances[id].pc = "ready"
    /\ \E file \in TwoFiles :
          instances' = [instances EXCEPT ![id].file = file,
                                         ![id].lines = read_lines(file),
                                         ![id].i = 1,
                                         ![id].pc = "loop"]
    /\ UNCHANGED <<pvars, tvars, prvars, rvars>>

\* parse_file of instance id: one line of the scan, or the end of the scan
TwoParseLine(id) ==
    /\ instances[id].pc = "loop"
    /\ LET me == instances[id]
           r == loop_body(me.lines[me.i], me.exclude_prefix, me.current_start,
                          me.segments, me.chapters)
       IN  IF me.i > Len(me.lines)
           THEN instances' =
                    [instances EXCEPT
                        ![id].segments = close_unclosed(me.current_start,
                                                        me.segments),
                        ![id].pc = "parsed"]
           ELSE IF r.ok
           THEN instances' =
                    [instances EXCEPT ![id].current_start = r.current_start,
                                      ![id].segments = r.segments,
                                      ![id].chapters = r.chapters,
                                      ![id].i = me.i + 1]
           ELSE instances' = [instances EXCEPT ![id].pc = "failed"]
    /\ UNCHANGED <<pvars, tvars, prvars, rvars>>

\* generate_edited_chapters of instance id: one chapter, or the return
TwoRemapChapter(id) ==
    /\ instances[id].pc = "parsed"
    /\ LET me == instances[id]
       IN  IF me.ci = Len(me.chapters)
           THEN instances' = [instances EXCEPT ![id].pc = "done"]
           ELSE instances' =
                    [instances EXCEPT
                        ![id].edited_chapters =
                            remap_chapter(me.chapters[me.ci + 1], me.segments,
                                          me.exclude_prefix,
                                          me.edited_chapters),
                        ![id].ci = me.ci + 1]
    /\ UNCHANGED <<pvars, tvars, prvars, rvars>>

NextTwo ==
    \/ \E id \in InstanceIds : ConstructPair(id)
    \/ \E id \in InstanceIds : TwoReadLines(id)
    \/ \E id \in InstanceIds : TwoParseLine(id)
    \/ \E id \in InstanceIds : TwoRemapChapter(id)

SpecTwo == InitTwo /\ [][NextTwo]_vars

(***************************************************************************)
(* The state machine of VideoChapterTrimmer: the constructor, then run.    *)
(* The files found, the answer to the overwrite question, the exit status  *)
(* of every ffmpeg process and a KeyboardInterrupt are the environment.    *)
(***************************************************************************)
\* parse_file as one call: the loop of parse_file over all the lines
parse_file(file, prefix) ==
    LET ls == read_lines(file)
        st[k \in 0..Len(ls)] ==
            IF k = 0
            THEN [ok |-> TRUE, current_start |-> None, segments |-> <<>>,
                  chapters |-> <<>>]
            ELSE IF ~st[k - 1].ok THEN st[k - 1]
            ELSE loop_body(ls[k], prefix, st[k - 1].current_start,
                           st[k - 1].segments, st[k - 1].chapters)
        last == st[Len(ls)]
    IN  IF ls = <<>> \/ ~last.ok
        THEN [ok |-> FALSE, segments |-> <<>>, chapters |-> <<>>]
        ELSE [ok |-> TRUE,
              segments |-> close_unclosed(last.current_start, last.segments),
              chapters |-> last.chapters]

\* generate_edited_chapters as one call
generate_edited_chapters(chaps, segs, prefix) ==
    LET ed[k \in 0..Len(chaps)] ==
            IF k = 0 THEN <<>>
            ELSE remap_chapter(chaps[k], segs, prefix, ed[k - 1])
    IN  ed[Len(chaps)]

\* a faulty variant: a failure is reported as success
exit_code_for_zero(exception) == 0

\* run: except KeyboardInterrupt: return 130; except Exception: return 1
exit_code_for(exception) ==
    IF exception = "KeyboardInterrupt" THEN 130 ELSE 1

\* a faulty variant: the temporary directory is removed whoever made it
cleanup_always(dir, keep_temp) == [dir EXCEPT !.exists = FALSE]

\* _cleanup
cleanup(dir, keep_temp) ==
    IF dir.created /\ ~keep_temp /\ dir.exists
    THEN [dir EXCEPT !.exists = FALSE]
    ELSE dir

\* a faulty variant: the newest segment file is put first
collect_front(files, output_file) == <<output_file>> \o files

\* segment_files.append(output_file)
collect(files, output_file) == Append(files, output_file)

\* temp_dir / f"segment_{i:03d}.mp4"
SegmentFile(n) == [FilePath("segment", ".mp4") EXCEPT !.num = n]

\* the VideoProcessor the constructor builds from the arguments
RunProcessor(a) ==
    [verbose |-> FALSE, dry_run |-> a.dry_run, accurate |-> a.accurate,
     reencode |-> FALSE, split_safe |-> FALSE, gpu_encoder |-> None]

\* a call run makes, for the log
Event(ev, n, ok, files, segment) ==
    [ev |-> ev, n |-> n, ok |-> ok, files |-> files, segment |-> segment]

RunChapterFiles ==
    {<<MarkerLine(T0, TitleA), MarkerLine(T1, TitleCM), MarkerLine(T2, TitleA)>>,
     <<MarkerLine(T1, TitleA)>>,
     <<MarkerLine(T0, TitleCM)>>,
     <<MarkerLine(T0, TitleA), TextLine>>,
     <<>>}

InitRun ==
    /\ PipelineOff
    /\ TimeOff
    /\ ProcessorOff
    /\ InstancesOff
    /\ RunOff
    /\ rpc = "new"

\* VideoChapterTrimmer(args): _setup_temp_dir
RunConstruct ==
    /\ rpc = "new"
    /\ run_args' \in [split : BOOLEAN, dry_run : BOOLEAN, accurate : BOOLEAN,
                      no_chapters : BOOLEAN, keep_temp : BOOLEAN,
                      temp_dir : BOOLEAN]
    /\ run_env' \in [chapter_file : RunChapterFiles, chapter_exists : BOOLEAN,
                     video_exists : BOOLEAN, output_exists : BOOLEAN,
                     confirm : BOOLEAN]
    /\ temp_dir' = [created |-> ~run_args'.temp_dir, exists |-> TRUE]
    /\ rpc' = "start"
    /\ UNCHANGED <<run_segments, run_chapters, run_files, run_events,
                   exit_code>>
    /\ UNCHANGED <<pvars, tvars, prvars, instances>>

\* run: the input files are looked for, the chapter file is parsed
RunParse ==
    /\ rpc = "start"
    /\ LET r == parse_file(run_env.chapter_file, DefaultPrefix)
       IN  IF ~run_env.chapter_exists \/ ~run_env.video_exists
           THEN /\ exit_code' = 1
                /\ rpc' = "finally"
                /\ UNCHANGED <<run_segments, run_chapters>>
           ELSE IF ~r.ok
           THEN /\ exit_code' = exit_code_for("ValueError")
                /\ rpc' = "finally"
                /\ UNCHANGED <<run_segments, run_chapters>>
           ELSE /\ run_segments' = r.segments
                /\ run_chapters' = r.chapters
                /\ rpc' = "parsed"
                /\ UNCHANGED exit_code
    /\ UNCHANGED <<run_args, run_env, run_files, run_events, temp_dir>>
    /\ UNCHANGED <<pvars, tvars, prvars, instances>>

\* run with --split: _run_split_mode
RunSplitMode ==
    /\ rpc = "parsed"
    /\ run_args.split
    /\ IF \A k \in 1..Len(run_chapters) :
             StartsWith(run_chapters[k].title, <<"-", "-">>)
       THEN /\ exit_code' = 1
            /\ UNCHANGED run_events
       ELSE \E exit_ok \in (IF run_args.dry_run THEN {TRUE} ELSE BOOLEAN) :
            /\ run_events' = Append(run_events,
                   Event("split", 0, exit_ok, <<>>, VideoSegment(0, None)))
            /\ exit_code' = IF exit_ok THEN 0
                            ELSE exit_code_for("CalledProcessError")
    /\ rpc' = "finally"
    /\ UNCHANGED <<run_args, run_env, run_segments, run_chapters, run_files,
                   temp_dir>>
    /\ UNCHANGED <<pvars, tvars, prvars, instances>>

\* run without --split: no segments, or the output exists and the user
\* declines to overwrite it, else on to the extraction
RunPrepare ==
    /\ rpc = "parsed"
    /\ ~run_args.split
    /\ IF run_segments = <<>>
       THEN exit_code' = 1 /\ rpc' = "finally"
       ELSE IF run_env.output_exists /\ ~run_args.dry_run /\ ~run_env.confirm
       THEN exit_code' = 0 /\ rpc' = "finally"
       ELSE rpc' = "extract" /\ UNCHANGED exit_code
    /\ UNCHANGED <<run_args, run_env, run_segments, run_chapters, run_files,
                   run_events, temp_dir>>
    /\ UNCHANGED <<pvars, tvars, prvars, instances>>

\* run: one pass of the loop over the segments
RunExtract ==
    /\ rpc = "extract"
    /\ Len(run_files) < Len(run_segments)
    /\ \E exit_ok \in (IF run_args.dry_run THEN {TRUE} ELSE BOOLEAN) :
       LET n == Len(run_files)
           segment == run_segments[n + 1]
           r == extract_segment(RunProcessor(run_args), FilePath("in", ".mp4"), SegmentFile(n), segment, <<>>, None, exit_ok)
           done == r.exc = NoException
       IN  /\ run_events' = Append(run_events,
                  Event("extract", n, done, <<>>, segment))
           /\ IF done
              THEN /\ run_files' = collect(run_files, SegmentFile(n))
                   /\ UNCHANGED <<rpc, exit_code>>
              ELSE /\ exit_code' = exit_code_for(r.exc)
                   /\ rpc' = "finally"
                   /\ UNCHANGED run_files
    /\ UNCHANGED <<run_args, run_env, run_segments, run_chapters, temp_dir>>
    /\ UNCHANGED <<pvars, tvars, prvars, instances>>

\* run: merge_segments(segment_files, output_video)
RunMerge ==
    /\ rpc = "extract"
    /\ Len(run_files) = Len(run_segments)
    /\ \E exit_ok \in (IF run_args.dry_run THEN {TRUE} ELSE BOOLEAN) :
       LET r == run_command(RunProcessor(run_args),
                    Some(merge_cmd(RunProcessor(run_args), ConcatPath,
                                   MergedOut)), exit_ok)
           done == r.exc = NoException
       IN  /\ run_events' = Append(run_events,
                  Event("merge", 0, done, run_files, VideoSegment(0, None)))
           /\ IF done
              THEN rpc' = "merged" /\ UNCHANGED exit_code
              ELSE exit_code' = exit_code_for(r.exc) /\ rpc' = "finally"
    /\ UNCHANGED <<run_args, run_env, run_segments, run_chapters, run_files,
                   temp_dir>>
    /\ UNCHANGED <<pvars, tvars, prvars, instances>>

\* run: the chapter file of the edited video, then return 0
RunChapters ==
    /\ rpc = "merged"
    /\ LET edited == generate_edited_chapters(run_chapters, run_segments,
                                              DefaultPrefix)
           generate == <<Event("generate", Len(edited), TRUE, <<>>,
                               VideoSegment(0, None))>>
           write == <<Event("write", Len(edited), TRUE, <<>>,
                            VideoSegment(0, None))>>
       IN  run_events' =
               IF run_args.no_chapters THEN run_events
               ELSE IF edited # <<>> /\ ~run_args.dry_run
               THEN run_events \o generate \o write
               ELSE run_events \o generate
    /\ exit_code' = 0
    /\ rpc' = "finally"
    /\ UNCHANGED <<run_args, run_env, run_segments, run_chapters, run_files,
                   temp_dir>>
    /\ UNCHANGED <<pvars, tvars, prvars, instances>>

\* run: Ctrl-C while the try block runs
RunInterrupt ==
    /\ rpc \in {"start", "parsed", "extract", "merged"}
    /\ exit_code' = exit_code_for("KeyboardInterrupt")
    /\ rpc' = "finally"
    /\ UNCHANGED <<run_args, run_env, run_segments, run_chapters, run_files,
                   run_events, temp_dir>>
    /\ UNCHANGED <<pvars, tvars, prvars, instances>>

\* run: finally: self._cleanup(), then the return
RunFinally ==
    /\ rpc = "finally"
    /\ temp_dir' = cleanup(temp_dir, run_args.keep_temp)
    /\ rpc' = "returned"
    /\ UNCHANGED <<run_args, run_env, run_segments, run_chapters, run_files,
                   run_events, exit_code>>
    /\ UNCHANGED <<pvars, tvars, prvars, instances>>

NextRun ==
    \/ RunConstruct
    \/ RunParse
    \/ RunSplitMode
    \/ RunPrepare
    \/ RunExtract
    \/ RunMerge
    \/ RunChapters
    \/ RunInterrupt
    \/ RunFinally

SpecRun == InitRun /\ [][NextRun]_vars

(***************************************************************************)
(* What the properties below speak about: the file as the user wrote it.   *)
(***************************************************************************)
IsBlank(line) == line.kind = "ws"
NonBlankRaw == SelectSeq(raw, LAMBDA l : ~IsBlank(l))

\* H+:MM:SS.mmm with minutes and seconds below 60
WellFormed(line) ==
    /\ line.kind = "marker"
    /\ Len(line.ts.h) >= 1 /\ Len(line.ts.m) = 2
    /\ Len(line.ts.s) = 2 /\ Len(line.ts.ms) = 3
    /\ \A k \in 1..Len(line.ts.h) : line.ts.h[k] \in 0..9
    /\ DigitsToInt(line.ts.m) < 60
    /\ DigitsToInt(line.ts.s) < 60

Millis(ts) ==
    DigitsToInt(ts.h) * 3600000 + DigitsToInt(ts.m) * 60000
    + DigitsToInt(ts.s) * 1000 + DigitsToInt(ts.ms)

\* the markers of the file, in order: (timestamp, title)
InputMarkers ==
    [k \in 1..Len(NonBlankRaw) |->
        [timestamp |-> Millis(NonBlankRaw[k].ts), title |-> NonBlankRaw[k].title]]

\* parse_file has returned (segments, chapters)
Returned == pc \in {"parsed", "done"}

IsNonDecreasing(mk) ==
    \A k \in 1..(Len(mk) - 1) : mk[k].timestamp <= mk[k + 1].timestamp
IsStrictlyIncreasing(mk) ==
    \A k \in 1..(Len(mk) - 1) : mk[k].timestamp < mk[k + 1].timestamp
NonDecreasing == IsNonDecreasing(InputMarkers)
StrictlyIncreasing == IsStrictlyIncreasing(InputMarkers)

\* the classification of marker k of mk under the prefix
Excl(mk, prefix, k) == StartsWith(mk[k].title, prefix)
Incl(mk, prefix, k) == ~Excl(mk, prefix, k)

\* marker k opens a segment: an inclusion marker with no segment open
Opens(mk, prefix, k) ==
    Incl(mk, prefix, k) /\ (k = 1 \/ Excl(mk, prefix, k - 1))
\* the first exclusion marker after marker k, 0 if there is none
NextExcl(mk, prefix, k) ==
    LET later == {j \in (k + 1)..Len(mk) : Excl(mk, prefix, j)}
    IN  IF later = {} THEN 0 ELSE CHOOSE j \in later : \A j2 \in later : j <= j2
\* the segments of the two-state OPEN/CLOSED scan of the markers mk
ScanOf(mk, prefix) ==
    LET idx == [k \in 1..Len(mk) |-> k]
        opens == SelectSeq(idx, LAMBDA k : Opens(mk, prefix, k))
    IN  [m \in 1..Len(opens) |->
            [start |-> mk[opens[m]].timestamp,
             end |-> IF NextExcl(mk, prefix, opens[m]) = 0 THEN None
                     ELSE Some(mk[NextExcl(mk, prefix, opens[m])].timestamp)]]
ScanSegments == ScanOf(InputMarkers, exclude_prefix)

(***************************************************************************)
(* C1: for every accepted input parse_file returns exactly the segments of *)
(* the two-state OPEN/CLOSED scan: an inclusion marker opens a segment     *)
(* only when none is open, an exclusion marker closes the open segment at  *)
(* its timestamp and is a no-op when none is open, and a segment open      *)
(* after the last line is emitted open-ended.                              *)
(***************************************************************************)
C1_TwoStateScan == Returned => segments = ScanSegments

C1_Witness ==
    /\ pc = "parsed"
    /\ Len(segments) = 1 /\ segments[1].end # None
    /\ \E k \in 1..(Len(chapters) - 1) :
          /\ Incl(chapters, exclude_prefix, k)
          /\ Incl(chapters, exclude_prefix, k + 1)

(***************************************************************************)
(* The remapper's contract, in the words of the claims.                    *)
(***************************************************************************)
\* the timestamps (ms) _find_segment_for_timestamp is probed with
ProbeTimes == 0..MaxProbe

\* a bounded segment contains t iff start <= t < end, an open-ended one
\* iff t >= start
Inside(seg, t) ==
    IF seg.end = None THEN t >= seg.start
    ELSE seg.start <= t /\ t < seg.end[1]

Containing(t, segs) == {k \in 1..Len(segs) : Inside(segs[k], t)}
\* the first segment, in list order, that contains t (0: none does)
FirstContaining(t, segs) ==
    IF Containing(t, segs) = {} THEN 0
    ELSE CHOOSE k \in Containing(t, segs) : \A j \in Containing(t, segs) : k <= j

\* end - start of a segment whose end is present
Length(seg) == IF seg.end = None THEN 0 ELSE seg.end[1] - seg.start

RECURSIVE SumLengths(_, _)
SumLengths(segs, n) ==
    IF n = 0 THEN 0 ELSE SumLengths(segs, n - 1) + Length(segs[n])

\* the sum of (end - start) over the segments before the containing one,
\* plus the offset in the containing segment
PrefixSumTimestamp(t, segs) ==
    SumLengths(segs, FirstContaining(t, segs) - 1)
    + (t - segs[FirstContaining(t, segs)].start)

\* an original chapter the remapper keeps
Kept(chapter) ==
    /\ ~StartsWith(chapter.title, exclude_prefix)
    /\ Containing(chapter.timestamp, segments) # {}

\* the chapters visited so far that are kept
KeptSoFar == SelectSeq(SubSeq(chapters, 1, ci), Kept)

(***************************************************************************)
(* C2: for every chapter generate_edited_chapters emits, the new timestamp *)
(* equals the sum of (end - start) over all segments preceding the         *)
(* containing segment plus (chapter timestamp - containing segment's       *)
(* start); for the scenario of the spec the results are 0:00:00.000,       *)
(* 0:01:00.671 and 0:24:49.575.                                            *)
(***************************************************************************)
C2_PrefixSum ==
    Returned =>
        /\ Len(edited_chapters) = Len(KeptSoFar)
        /\ \A k \in 1..Len(edited_chapters) :
              edited_chapters[k].timestamp
                  = PrefixSumTimestamp(KeptSoFar[k].timestamp, segments)
        /\ (pc = "done" /\ raw = ScenarioFile /\ exclude_prefix = DefaultPrefix)
              => [k \in 1..Len(edited_chapters) |-> edited_chapters[k].timestamp]
                     = <<0, 60671, 1489575>>

\* the scenario alone: its chapters are remapped to 0:00:00.000, 0:01:00.671
\* and 0:24:49.575
C2_ScenarioHolds ==
    (pc = "done" /\ raw = ScenarioFile /\ exclude_prefix = DefaultPrefix)
        => [k \in 1..Len(edited_chapters) |-> edited_chapters[k].timestamp]
               = <<0, 60671, 1489575>>

(***************************************************************************)
(* C3: the output of generate_edited_chapters is, in original order and    *)
(* with titles unchanged, exactly the subsequence of original chapters     *)
(* whose title does not start with the exclusion prefix and whose          *)
(* timestamp lies inside some segment; every other chapter is dropped      *)
(* silently and the call never raises.                                     *)
(***************************************************************************)
C3_KeptSubsequence ==
    Returned =>
        /\ [k \in 1..Len(edited_chapters) |-> edited_chapters[k].title]
               = [k \in 1..Len(KeptSoFar) |-> KeptSoFar[k].title]
        /\ error = NoError

C3_Witness ==
    /\ pc = "done"
    /\ Len(edited_chapters) >= 1
    /\ \E k \in 1..Len(chapters) :
          /\ ~StartsWith(chapters[k].title, exclude_prefix)
          /\ ~Kept(chapters[k])
    /\ \E k \in 1..Len(chapters) : StartsWith(chapters[k].title, exclude_prefix)

(***************************************************************************)
(* C4: _find_segment_for_timestamp returns the index of the first segment, *)
(* in list order, that contains the timestamp (bounded: start <= t < end,  *)
(* open-ended: t >= start), and None when no segment contains it.          *)
(***************************************************************************)
C4_FirstContaining ==
    \A t \in ProbeTimes :
        find_segment_for_timestamp(t, segments)
            = IF FirstContaining(t, segments) = 0 THEN None
              ELSE Some(FirstContaining(t, segments))

C4_Witness ==
    /\ Returned
    /\ \E t \in ProbeTimes :
          /\ Cardinality(Containing(t, segments)) >= 2
          /\ find_segment_for_timestamp(t, segments) = Some(1)
    /\ \E t \in ProbeTimes :
          /\ segments[1].end = Some(t)
          /\ find_segment_for_timestamp(t, segments) # Some(1)
    /\ \E t \in ProbeTimes : find_segment_for_timestamp(t, segments) = None

\* every bounded segment has start < end
BoundedHavePositiveLength ==
    \A k \in 1..Len(segments) :
        segments[k].end # None => segments[k].start < segments[k].end[1]

(***************************************************************************)
(* C5 as stated: for every accepted input whose marker timestamps are      *)
(* non-decreasing (equal timestamps allowed), every bounded segment        *)
(* returned by parse_file satisfies start < end strictly.                  *)
(***************************************************************************)
C5_Original == (Returned /\ NonDecreasing) => BoundedHavePositiveLength

(***************************************************************************)
(* C5 amended: for every accepted input whose marker timestamps are        *)
(* strictly increasing, every bounded segment returned by parse_file       *)
(* satisfies start < end; with non-decreasing timestamps start <= end.     *)
(***************************************************************************)
C5_StrictInput ==
    /\ (Returned /\ StrictlyIncreasing) => BoundedHavePositiveLength
    /\ (Returned /\ NonDecreasing) =>
           \A k \in 1..Len(segments) :
               segments[k].end # None => segments[k].start <= segments[k].end[1]

C5_Witness ==
    /\ Returned
    /\ StrictlyIncreasing
    /\ Len(InputMarkers) >= 3
    /\ \E k \in 1..Len(segments) :
          segments[k].end # None /\ segments[k].start + 1 < segments[k].end[1]

\* consecutive segments do not overlap
EndsBeforeNextStarts ==
    \A k \in 1..(Len(segments) - 1) :
        /\ segments[k].end # None
        /\ segments[k].end[1] <= segments[k + 1].start

StartsStrictlyIncrease ==
    \A k \in 1..(Len(segments) - 1) : segments[k].start < segments[k + 1].start

(***************************************************************************)
(* C6 as stated: for every accepted input whose marker timestamps are      *)
(* non-decreasing (equal timestamps allowed), the segments returned by     *)
(* parse_file are pairwise non-overlapping and their starts are strictly   *)
(* increasing in list order.                                               *)
(***************************************************************************)
C6_Original ==
    (Returned /\ NonDecreasing) => (EndsBeforeNextStarts /\ StartsStrictlyIncrease)

(***************************************************************************)
(* C6 amended: for every accepted input whose marker timestamps are        *)
(* non-decreasing, each segment's end is <= the next segment's start and   *)
(* the starts are non-decreasing, two consecutive starts being equal only  *)
(* when the earlier segment has zero length; the starts are strictly       *)
(* increasing when the marker timestamps are strictly increasing.          *)
(***************************************************************************)
C6_Ordered ==
    /\ (Returned /\ NonDecreasing) =>
          /\ EndsBeforeNextStarts
          /\ \A k \in 1..(Len(segments) - 1) :
                /\ segments[k].start <= segments[k + 1].start
                /\ segments[k].start = segments[k + 1].start
                      => segments[k].end = Some(segments[k].start)
    /\ (Returned /\ StrictlyIncreasing) => StartsStrictlyIncrease

C6_Witness ==
    /\ Returned
    /\ NonDecreasing
    /\ ~StrictlyIncreasing
    /\ Len(segments) >= 2
    /\ segments[1].start < segments[2].start

(***************************************************************************)
(* C7: in every list of segments returned by parse_file at most one        *)
(* segment is open-ended and, if present, it is the last element.          *)
(***************************************************************************)
C7_OpenEndedOnlyLast ==
    Returned =>
        \A k \in 1..Len(segments) : segments[k].end = None => k = Len(segments)

C7_Witness ==
    /\ Returned
    /\ Len(segments) >= 2
    /\ segments[Len(segments)].end = None

(***************************************************************************)
(* C8: parse_file returns a chapter list with exactly one Chapter per      *)
(* non-blank input line, in input order, with that line's timestamp and    *)
(* title, the lines whose title carries the exclusion prefix included.     *)
(***************************************************************************)
C8_OneChapterPerLine == Returned => chapters = InputMarkers

C8_Witness ==
    /\ Returned
    /\ Len(chapters) >= 2
    /\ Len(raw) > Len(chapters)
    /\ \E k \in 1..Len(chapters) : StartsWith(chapters[k].title, exclude_prefix)

\* the lines of the file that parse_file refuses, by line number in the file
Offending == {k \in 1..Len(raw) : ~IsBlank(raw[k]) /\ ~WellFormed(raw[k])}
FirstOffending == CHOOSE k \in Offending : \A j \in Offending : k <= j

(***************************************************************************)
(* C9: when an input line does not match the timestamp-title pattern,      *)
(* parse_file fails with an error that names the 1-based line number of    *)
(* the offending line in the input, for every position of that line and    *)
(* also when blank lines precede it.                                       *)
(***************************************************************************)
C9_LineNumberInInput ==
    /\ error.kind = "format" => (Offending # {} /\ error.line = FirstOffending)
    /\ (pc \in {"failed", "parsed", "done"} /\ Offending # {})
          => error.kind = "format"

\* the number parse_file cites is the position among the non-blank lines
C9_LineNumberAmongNonBlank ==
    error.kind = "format" =>
        /\ Offending # {}
        /\ error.line
             = Cardinality({k \in 1..FirstOffending : ~IsBlank(raw[k])})

(***************************************************************************)
(* C10: an input with zero non-blank lines makes parse_file fail with the  *)
(* empty-input error, and blank lines inside a non-empty input are         *)
(* ignored: they produce no chapter and do not change the segments.        *)
(***************************************************************************)
C10_EmptyAndBlank ==
    /\ (pc # "start" /\ NonBlankRaw = <<>>)
          => (pc = "failed" /\ error = EmptyFileError)
    /\ error = EmptyFileError => NonBlankRaw = <<>>
    /\ (pc # "start" /\ NonBlankRaw # <<>>) => lines = NonBlankRaw
    /\ Returned =>
          /\ Len(chapters) = Len(NonBlankRaw)
          /\ segments = ScanSegments

C10_Witness ==
    /\ Returned
    /\ \E k \in 1..(Len(raw) - 1) : IsBlank(raw[k])
    /\ Len(chapters) >= 2
    /\ Len(segments) >= 1

\* the empty-input error is raised for a file of whitespace-only lines
C10_WitnessEmpty ==
    /\ pc = "failed"
    /\ error = EmptyFileError
    /\ Len(raw) >= 2
    /\ \E k \in 1..Len(raw) : raw[k] = WsLine(2)

(***************************************************************************)
(* What the properties about TimeParser speak about: the text handed in.   *)
(***************************************************************************)
\* the text has the shape H+:MM:SS.mmm
HasShape(ts) ==
    /\ Len(ts.h) >= 1 /\ Len(ts.m) = 2 /\ Len(ts.s) = 2 /\ Len(ts.ms) = 3
    /\ \A f \in {ts.h, ts.m, ts.s, ts.ms} : \A k \in 1..Len(f) : f[k] \in 0..9

\* parse_timestamp(time_str) has returned or raised
TimeCalled == tpc \notin {"idle", "call"}

C11_WitnessRejected ==
    /\ tpc = "raised"
    /\ time_str = TsText(<<1>>, <<3, 0>>, <<6, 0>>, <<5, 0, 0>>)

\* parse_file passes the rejection on: it returns only when every non-blank
\* line is a marker of the shape with minutes and seconds below 60
C11_ParseFileRejects ==
    Returned => \A k \in 1..Len(NonBlankRaw) : WellFormed(NonBlankRaw[k])

(***************************************************************************)
(* C12: when the input chapter timestamps are non-decreasing and the       *)
(* segments are those parse_file built from the same input, the timestamps *)
(* generate_edited_chapters returns are non-decreasing in output order.    *)
(***************************************************************************)
C12_Monotone ==
    (Returned /\ NonDecreasing) => IsNonDecreasing(edited_chapters)

C12_Witness ==
    /\ pc = "done"
    /\ NonDecreasing
    /\ Len(segments) >= 2
    /\ Len(edited_chapters) >= 3
    /\ edited_chapters[1].timestamp < edited_chapters[2].timestamp
    /\ edited_chapters[2].timestamp < edited_chapters[3].timestamp

(***************************************************************************)
(* What the properties about the second run speak about: the chapter list  *)
(* the first run wrote.                                                    *)
(***************************************************************************)
\* parse_file has been called on the file write_chapter_file wrote
Reparse == written # None /\ pc \in {"start", "loop", "failed", "parsed", "done"}

\* the tool has been run again on the non-empty chapter list it wrote
SecondRun == Reparse /\ written[1] # <<>>

\* the list starts at zero and holds no negative timestamp
StartsAtZero(chaps) ==
    /\ chaps[1].timestamp = 0
    /\ \A k \in 1..Len(chaps) : chaps[k].timestamp >= 0

(***************************************************************************)
(* C13 as stated: for every accepted input with a non-empty remapped       *)
(* chapter list C, parsing C and remapping C against the segments of that  *)
(* second parse succeeds and returns exactly C.                            *)
(***************************************************************************)
C13_Original ==
    SecondRun =>
        /\ pc # "failed"
        /\ pc = "done" => edited_chapters = written[1]

(***************************************************************************)
(* C13 amended: for every accepted input with non-decreasing timestamps    *)
(* the non-empty remapped list C starts at zero and holds no negative      *)
(* timestamp, and for every such C the second run succeeds and returns     *)
(* exactly C.                                                              *)
(***************************************************************************)
C13_OrderedInput ==
    /\ (pc = "done" /\ written = None /\ NonDecreasing
           /\ edited_chapters # <<>>) => StartsAtZero(edited_chapters)
    /\ (SecondRun /\ StartsAtZero(written[1])) =>
           /\ pc # "failed"
           /\ pc = "done" => edited_chapters = written[1]

C13_Witness ==
    /\ SecondRun
    /\ pc = "done"
    /\ Len(written[1]) = 3
    /\ written[1][2].timestamp > 0
    /\ written[1][3].timestamp > written[1][2].timestamp
    /\ edited_chapters = written[1]

\* a segment is open after marker k: the marker is an inclusion marker (it
\* opened a segment or left one open); an exclusion marker leaves none open
OpenAfter(mk, prefix, k) == k >= 1 /\ Incl(mk, prefix, k)

\* the close transitions among the first n markers: exclusion markers that
\* arrive while a segment is open
Closes(mk, prefix, n) ==
    Cardinality({k \in 2..n : Excl(mk, prefix, k) /\ OpenAfter(mk, prefix, k - 1)})

(***************************************************************************)
(* C14: the number of segments parse_file returns equals the number of     *)
(* exclusion markers that arrive while a segment is open (the close        *)
(* transitions), plus one if a segment is still open after the last line;  *)
(* during the scan the segments built so far are the close transitions so  *)
(* far.                                                                    *)
(***************************************************************************)
C14_SegmentCount ==
    /\ pc = "loop" =>
          /\ Len(segments) = Closes(InputMarkers, exclude_prefix, i - 1)
          /\ (current_start # None)
                <=> OpenAfter(InputMarkers, exclude_prefix, i - 1)
    /\ Returned =>
          Len(segments)
            = Closes(InputMarkers, exclude_prefix, Len(InputMarkers))
              + (IF current_start # None THEN 1 ELSE 0)

C14_Witness ==
    /\ Returned
    /\ Closes(InputMarkers, exclude_prefix, Len(InputMarkers)) = 2
    /\ current_start # None
    /\ Len(segments) = 3

\* an exclusion marker that arrives while no segment is open adds nothing
C14_WitnessClosedExclusion ==
    /\ Returned
    /\ Len(InputMarkers) = 3
    /\ Excl(InputMarkers, exclude_prefix, 1)
    /\ Excl(InputMarkers, exclude_prefix, 3)
    /\ Len(segments) = 1

\* the input is accepted: it has a non-blank line and every non-blank line
\* is a well-formed marker
Accepted ==
    /\ NonBlankRaw # <<>>
    /\ \A k \in 1..Len(NonBlankRaw) : WellFormed(NonBlankRaw[k])

AllExcluded ==
    \A k \in 1..Len(NonBlankRaw) : StartsWith(NonBlankRaw[k].title, exclude_prefix)
NoneExcluded ==
    \A k \in 1..Len(NonBlankRaw) : ~StartsWith(NonBlankRaw[k].title, exclude_prefix)

(***************************************************************************)
(* C15: an accepted input in which every marker is an exclusion marker     *)
(* raises no error: parse_file builds no segment (and returns none), and   *)
(* generate_edited_chapters returns no chapter.                            *)
(***************************************************************************)
C15_AllExcluded ==
    (Accepted /\ AllExcluded) =>
        /\ pc # "failed"
        /\ error = NoError
        /\ segments = <<>>
        /\ current_start = None
        /\ edited_chapters = <<>>
        /\ Returned => Len(chapters) = Len(NonBlankRaw)

C15_Witness ==
    /\ Accepted
    /\ AllExcluded
    /\ pc = "done"
    /\ Len(chapters) = 3
    /\ segments = <<>>
    /\ edited_chapters = <<>>

(***************************************************************************)
(* C16: an accepted input in which no marker is an exclusion marker yields *)
(* exactly one segment, which starts at the first marker's timestamp and   *)
(* is open-ended, however many markers there are.                          *)
(***************************************************************************)
C16_NoneExcluded ==
    (Returned /\ NoneExcluded) =>
        segments = <<VideoSegment(Millis(NonBlankRaw[1].ts), None)>>

C16_Witness ==
    /\ Returned
    /\ NoneExcluded
    /\ Len(chapters) = 4
    /\ chapters[1].timestamp < chapters[4].timestamp
    /\ segments = <<VideoSegment(chapters[1].timestamp, None)>>

(***************************************************************************)
(* C17: VideoSegment.duration equals end - start for every segment whose   *)
(* end is present, including an end of 0:00:00.000, and is None exactly    *)
(* when the segment is open-ended.                                         *)
(***************************************************************************)
C17_Duration ==
    \A k \in 1..Len(segments) :
        LET seg == segments[k]
        IN  /\ seg.end # None => duration(seg) = Some(seg.end[1] - seg.start)
            /\ duration(seg) = None <=> seg.end = None

\* duration is end - start whenever the end is present and not zero, and
\* None for an open-ended segment
C17_NonZeroEnd ==
    \A k \in 1..Len(segments) :
        LET seg == segments[k]
        IN  /\ (seg.end # None /\ seg.end[1] # 0)
                  => duration(seg) = Some(seg.end[1] - seg.start)
            /\ seg.end = None => duration(seg) = None

\* no timestamp of the list is negative
NonNegative(chaps) == \A k \in 1..Len(chaps) : chaps[k].timestamp >= 0

\* the text is H:MM:SS.mmm for t milliseconds: hours without zero padding,
\* two digits of minutes and of seconds, three of milliseconds
ChapterFormat(ts, t) ==
    /\ HasShape(ts)
    /\ Len(ts.h) = 1 \/ ts.h[1] # 0
    /\ DigitsToInt(ts.m) < 60
    /\ DigitsToInt(ts.s) < 60
    /\ Millis(ts) = t

\* the file holds one line "H:MM:SS.mmm title" per chapter, in order
OneLinePerChapter(file, chaps) ==
    /\ Len(file) = Len(chaps)
    /\ \A k \in 1..Len(chaps) :
          /\ file[k].kind = "marker"
          /\ file[k].title = chaps[k].title
          /\ ChapterFormat(file[k].ts, chaps[k].timestamp)

(***************************************************************************)
(* C18 as stated: for every chapter list with non-negative timestamps and  *)
(* titles from a parse, write_chapter_file emits one line                  *)
(* "H:MM:SS.mmm title" per chapter in order, and parse_file on that file   *)
(* returns chapters equal to the written ones.                             *)
(***************************************************************************)
C18_Original ==
    (written # None /\ NonNegative(written[1])) =>
        /\ OneLinePerChapter(output_chapter, written[1])
        /\ Reparse =>
              /\ pc # "failed"
              /\ Returned => chapters = written[1]

(***************************************************************************)
(* C18 amended: the same for every non-empty chapter list; the empty list  *)
(* is written as an empty file.                                            *)
(***************************************************************************)
C18_NonEmptyList ==
    (written # None /\ NonNegative(written[1])) =>
        /\ OneLinePerChapter(output_chapter, written[1])
        /\ (Reparse /\ written[1] # <<>>) =>
              /\ pc # "failed"
              /\ Returned => chapters = written[1]

C18_Witness ==
    /\ Reparse
    /\ Returned
    /\ Len(written[1]) = 4
    /\ written[1][4].timestamp = 360000000
    /\ output_chapter[2].ts = TsText(<<1>>, <<3, 0>>, <<4, 5>>, <<5, 0, 0>>)
    /\ output_chapter[3].ts = TsText(<<1, 2>>, <<5, 9>>, <<5, 9>>, <<9, 9, 9>>)
    /\ output_chapter[4].ts = TsText(<<1, 0, 0>>, D00, D00, <<0, 0, 0>>)
    /\ chapters = written[1]

\* the empty list is written as an empty file, which parse_file refuses
C18_WitnessEmptyList ==
    /\ Reparse
    /\ written = Some(<<>>)
    /\ pc = "failed"
    /\ error = EmptyFileError

C19_WitnessLong ==
    /\ tpc = "ffmpeg_back"
    /\ parsed.td = 26 * 3600000 + 30 * 60000
    /\ formatted = TsText(<<2, 6>>, <<3, 0>>, D00, <<0, 0, 0>>)
    /\ reparsed.td = parsed.td

\* the hours field is zero-padded: a leading zero before further digits
PaddedHours(ts) == Len(ts.h) >= 2 /\ ts.h[1] = 0

(***************************************************************************)
(* C20: parse_timestamp raises ValueError for a timestamp whose hours      *)
(* field is zero-padded, such as "01:30:45.500", as it does for missing or *)
(* short milliseconds, missing seconds, and minutes or seconds that are    *)
(* not two digits.                                                         *)
(***************************************************************************)
C20_PaddedHoursRejected ==
    TimeCalled =>
        /\ PaddedHours(time_str) => ~parsed.ok
        /\ (Len(time_str.ms) # 3 \/ Len(time_str.s) # 2 \/ Len(time_str.m) # 2)
              => ~parsed.ok

\* texts with missing or short milliseconds, missing seconds, or minutes or
\* seconds that are not two digits are rejected
C20_OtherShapesRejected ==
    (TimeCalled
       /\ (Len(time_str.ms) # 3 \/ Len(time_str.s) # 2 \/ Len(time_str.m) # 2))
        => (~parsed.ok /\ tpc = "raised")

\* "01:30:45.500" is accepted as 1:30:45.500
C20_PaddedHoursAccepted ==
    /\ tpc = "parsed"
    /\ time_str = TsText(<<0, 1>>, <<3, 0>>, <<4, 5>>, <<5, 0, 0>>)
    /\ parsed.td = 3600000 + 30 * 60000 + 45 * 1000 + 500

\* the inclusion markers of the file, in order
InclusionMarkers ==
    SelectSeq(InputMarkers, LAMBDA c : ~StartsWith(c.title, exclude_prefix))

\* the remapped list holds exactly one chapter per inclusion marker, in
\* order, and starts at 0:00:00.000
OnePerInclusionMarker ==
    /\ Len(edited_chapters) = Len(InclusionMarkers)
    /\ \A k \in 1..Len(edited_chapters) :
          edited_chapters[k].title = InclusionMarkers[k].title
    /\ edited_chapters # <<>> => edited_chapters[1].timestamp = 0

C29_WitnessLost ==
    /\ pc = "done"
    /\ NonDecreasing
    /\ Len(InclusionMarkers) = 1
    /\ edited_chapters = <<>>

(***************************************************************************)
(* What the properties of VideoProcessor speak about.                      *)
(***************************************************************************)
\* the calls of subprocess.run made after the constructor returned
ConstructorCalls ==
    {Some(ffmpeg_version_cmd), Some(test_encoder_cmd(NvencEncoder))}
MethodCalls ==
    SelectSeq(subprocess_calls, LAMBDA c : c \notin ConstructorCalls)

\* option immediately followed by value somewhere in args
HasPair(args, option, value) ==
    \E k \in 1..(Len(args) - 1) : args[k] = Lit(option) /\ args[k + 1] = value
HasArg(args, arg) == \E k \in 1..Len(args) : args[k] = arg

CalledReturned(method) == ppc = "returned" /\ pcall.method = method
FastMode == ~processor.accurate /\ ~processor.reencode
\* merge_segments was handed an empty list, which it is to refuse
EmptyMerge == pcall.method = "merge_segments" /\ pcall.segment_files = <<>>

\* what the fast-mode command is to contain, for a segment
AsFastCommand(args, input_file, output_file, segment) ==
    /\ args[1] = Lit("ffmpeg")
    /\ HasPair(args, "-ss", TimeArg(format_for_ffmpeg(segment.start)))
    /\ HasPair(args, "-i", PathArg(input_file))
    /\ HasPair(args, "-c", Lit("copy"))
    /\ HasArg(args, PathArg(output_file))
    /\ IF segment.end # None
       THEN HasPair(args, "-t",
                TimeArg(format_for_ffmpeg(segment.end[1] - segment.start)))
       ELSE ~HasArg(args, Lit("-t"))

(***************************************************************************)
(* C22: in fast mode (neither accurate nor reencode) extract_segment runs  *)
(* exactly one ffmpeg command; its argument list starts with ffmpeg and    *)
(* contains -ss with the segment start, -i with the input file, -c copy    *)
(* and the output file, and -t with the duration exactly when the segment  *)
(* has an end.                                                             *)
(***************************************************************************)
C22_FastExtract ==
    (CalledReturned("extract_segment") /\ FastMode /\ ~processor.dry_run)
    => /\ Len(MethodCalls) = 1
       /\ MethodCalls[1] # None
       /\ AsFastCommand(MethodCalls[1][1], pcall.input_file,
                        pcall.output_file, pcall.segment)

\* what extract_segment does in fast mode: the command it hands on is None,
\* the call raises TypeError and no ffmpeg command has run
C22_FastExtractHandsNone ==
    (CalledReturned("extract_segment") /\ FastMode)
    => /\ commands = <<None>>
       /\ raised = "TypeError"
       /\ \A k \in 1..Len(MethodCalls) : MethodCalls[k] = None

\* the list _build_fast_extract_command builds before it ends is the one
\* claimed, but for a segment whose end is present with a zero duration
C22_BuiltListAsClaimed ==
    (CalledReturned("extract_segment") /\ FastMode
     /\ Truthy(duration(pcall.segment)) = (pcall.segment.end # None))
    => AsFastCommand(fast_extract_cmd(processor, pcall.input_file,
                                      pcall.output_file, pcall.segment,
                                      format_for_ffmpeg(pcall.segment.start)),
                     pcall.input_file, pcall.output_file, pcall.segment)

(***************************************************************************)
(* C23: a VideoProcessor in dry-run mode never executes an external        *)
(* process: the constructor, extract_segment in any mode,                  *)
(* split_video_by_chapters and merge_segments (of a list that is not      *)
(* empty) complete without an exception and without a call of              *)
(* subprocess.run.                                                         *)
(***************************************************************************)
C23_DryRunNoProcess ==
    (processor.dry_run /\ ~EmptyMerge)
    => subprocess_calls = <<>> /\ raised = NoException

\* dry-run calls other than extract_segment run nothing and raise nothing
C23_DryRunOtherMethods ==
    (processor.dry_run /\ ~EmptyMerge /\ pcall.method # "extract_segment")
    => subprocess_calls = <<>> /\ raised = NoException

\* a dry-run extract_segment in accurate or reencode mode runs ffprobe
C23_DryRunProbes ==
    (processor.dry_run /\ CalledReturned("extract_segment") /\ ~FastMode)
    => /\ subprocess_calls = <<Some(ffprobe_cmd(pcall.input_file))>>
       /\ raised = NoException

\* the chapters of the call that lie inside its segment
ChaptersInside ==
    SelectSeq(pcall.chapters,
        LAMBDA c : /\ pcall.segment.start <= c.timestamp
                   /\ (pcall.segment.end = None
                       \/ c.timestamp < pcall.segment.end[1]))
\* their offsets from the segment start
OffsetsInside ==
    [k \in 1..Len(ChaptersInside) |->
        ChaptersInside[k].timestamp - pcall.segment.start]

SplitSafeExtract ==
    /\ CalledReturned("extract_segment")
    /\ ~FastMode
    /\ processor.split_safe
    /\ ChaptersInside # <<>>

\* -force_key_frames and the offsets stand after "-i input" and before the
\* output file, and -i is followed by the input file
AsOutputOption(args, input_file, output_file, offsets) ==
    \E a, b, c \in 1..Len(args) :
        /\ args[a] = Lit("-i")
        /\ args[a + 1] = PathArg(input_file)
        /\ a + 1 < b
        /\ args[b] = Lit("-force_key_frames")
        /\ args[b + 1] = OffsetsArg(offsets)
        /\ b + 1 < c
        /\ args[c] = PathArg(output_file)

(***************************************************************************)
(* C30: in split-safe extraction with chapters inside the segment, the     *)
(* ffmpeg command built contains -force_key_frames followed by the         *)
(* chapter offsets relative to the segment start, as an output option:     *)
(* after the pair -i <input file>, before the output file, with -i still   *)
(* immediately followed by the input file, whatever the input file name.   *)
(***************************************************************************)
C30_ForceKeyFrames ==
    SplitSafeExtract
    => /\ commands[1] # None
       /\ AsOutputOption(commands[1][1], pcall.input_file, pcall.output_file,
                         OffsetsInside)

\* what the code builds when the command holds a video codec: for an input
\* named *.mp4 the option and its offsets stand between -i and the input
\* file, for any other input name the option is absent
C30_SplitsInputPair ==
    (SplitSafeExtract /\ HasArg(commands[1][1], Lit("-c:v")))
    => LET args == commands[1][1]
       IN  IF pcall.input_file.suffix = ".mp4"
           THEN \E a \in 1..(Len(args) - 3) :
                   /\ args[a] = Lit("-i")
                   /\ args[a + 1] = Lit("-force_key_frames")
                   /\ args[a + 2] = OffsetsArg(OffsetsInside)
                   /\ args[a + 3] = PathArg(pcall.input_file)
           ELSE ~HasArg(args, Lit("-force_key_frames"))

\* list positions of the chapters split_video_by_chapters is to keep
SplitKept(chaps) ==
    {k \in 1..Len(chaps) :
        \/ Len(chaps[k].title) < 2
        \/ chaps[k].title[1] # "-"
        \/ chaps[k].title[2] # "-"}
\* the n-th of them
NthKept(chaps, n) ==
    CHOOSE k \in SplitKept(chaps) :
        Cardinality({j \in SplitKept(chaps) : j <= k}) = n

\* the split command of the n-th kept chapter starts at its timestamp and
\* lasts until the timestamp of the next kept chapter, if there is one
AsSplitCommand(args, chaps, n) ==
    LET k == NthKept(chaps, n)
    IN  /\ HasPair(args, "-ss", TimeArg(format_for_ffmpeg(chaps[k].timestamp)))
        /\ IF n < Cardinality(SplitKept(chaps))
           THEN HasPair(args, "-t",
                    TimeArg(format_for_ffmpeg(
                        chaps[NthKept(chaps, n + 1)].timestamp
                        - chaps[k].timestamp)))
           ELSE ~HasArg(args, Lit("-t"))

(***************************************************************************)
(* C21: split_video_by_chapters produces one output file and one           *)
(* extraction command per chapter whose title does not start with "--",    *)
(* in chapter order, numbered from 1 without gaps; each file starts at its *)
(* chapter's timestamp and lasts until the timestamp of the next chapter   *)
(* that is not excluded, the last one having no duration limit.            *)
(***************************************************************************)
C21_OneFilePerKeptChapter ==
    (CalledReturned("split_video_by_chapters") /\ raised = NoException)
    => LET chaps == pcall.chapters
           count == Cardinality(SplitKept(chaps))
       IN  /\ Len(output_files) = count
           /\ Len(commands) = count
           /\ \A n \in 1..count :
                 /\ output_files[n].num = n
                 /\ output_files[n].title
                        = safe_title(chaps[NthKept(chaps, n)].title)
                 /\ commands[n] # None
                 /\ HasArg(commands[n][1], PathArg(output_files[n]))
                 /\ AsSplitCommand(commands[n][1], chaps, n)

\* the same, the duration limit being required only when the next kept
\* chapter is not at 0:00:00.000
C21_NonZeroNext ==
    (CalledReturned("split_video_by_chapters") /\ raised = NoException)
    => LET chaps == pcall.chapters
           count == Cardinality(SplitKept(chaps))
       IN  /\ Len(output_files) = count
           /\ Len(commands) = count
           /\ \A n \in 1..count :
                 /\ output_files[n].num = n
                 /\ output_files[n].title
                        = safe_title(chaps[NthKept(chaps, n)].title)
                 /\ commands[n] # None
                 /\ HasArg(commands[n][1], PathArg(output_files[n]))
                 /\ (n < count
                       => chaps[NthKept(chaps, n + 1)].timestamp = 0)
                    \/ AsSplitCommand(commands[n][1], chaps, n)

(***************************************************************************)
(* C24: merge_segments with an empty list raises ValueError before it      *)
(* creates the concat list or runs a command; with a list that is not      *)
(* empty the concat list names the files in the order given, and once the  *)
(* call has returned or raised the concat list no longer exists when       *)
(* cleanup_concat is true.                                                 *)
(***************************************************************************)
C24_MergeSegments ==
    pcall.method = "merge_segments"
    => IF pcall.segment_files = <<>>
       THEN /\ ppc = "returned"
            /\ raised = "ValueError"
            /\ ~concat_written
            /\ commands = <<>>
            /\ MethodCalls = <<>>
       ELSE /\ ppc \in {"merge", "finally"}
               => /\ concat_file # None
                  /\ Len(concat_file[1]) = Len(pcall.segment_files)
                  /\ \A k \in 1..Len(pcall.segment_files) :
                        concat_file[1][k].path = pcall.segment_files[k]
            /\ (ppc = "returned" /\ pcall.cleanup_concat)
               => concat_file = None

\* a merge whose command failed has returned, the concat list removed
C24_Witness ==
    /\ CalledReturned("merge_segments")
    /\ pcall.segment_files = <<SegmentOut2, SegmentOut>>
    /\ pcall.cleanup_concat
    /\ raised = "CalledProcessError"
    /\ concat_written
    /\ concat_file = None

\* a merge refused an empty list
C24_WitnessEmpty ==
    /\ CalledReturned("merge_segments")
    /\ pcall.segment_files = <<>>
    /\ raised = "ValueError"

\* the markers of a chapter file, in order: (timestamp, title)
MarkersOf(file) ==
    LET nonblank == SelectSeq(file, LAMBDA l : ~IsBlank(l))
    IN  [k \in 1..Len(nonblank) |->
            [timestamp |-> Millis(nonblank[k].ts), title |-> nonblank[k].title]]

\* the titles a remapper with the prefix keeps, of the markers mk
KeptTitles(mk, prefix) ==
    LET kept == SelectSeq(mk,
                    LAMBDA c : /\ Len(c.title) < Len(prefix)
                                  \/ SubSeq(c.title, 1, Len(prefix)) # prefix
                               /\ Containing(c.timestamp, ScanOf(mk, prefix))
                                      # {})
    IN  [k \in 1..Len(kept) |-> kept[k].title]

TitlesOf(chaps) == [k \in 1..Len(chaps) |-> chaps[k].title]

(***************************************************************************)
(* C25: the exclusion prefix is per-instance configuration: a parser or    *)
(* remapper constructed with prefix P treats a title as excluded exactly   *)
(* when it starts with P, and constructing or using another instance with  *)
(* another prefix changes neither that nor its results: two configurations *)
(* interleaved in any way give what each gives alone.                      *)
(***************************************************************************)
C25_PerInstancePrefix ==
    \A id \in InstanceIds :
        LET me == instances[id]
            mk == MarkersOf(me.file)
        IN  /\ me.pc # "new" => me.exclude_prefix = me.argument
            /\ me.pc \in {"parsed", "done"}
                  => me.segments = ScanOf(mk, me.argument)
            /\ me.pc = "done"
                  => TitlesOf(me.edited_chapters) = KeptTitles(mk, me.argument)

\* both configurations have finished on the same file, with different
\* prefixes and different results
C25_Witness ==
    /\ instances[1].pc = "done"
    /\ instances[2].pc = "done"
    /\ instances[1].file = instances[2].file
    /\ instances[1].argument = DefaultPrefix
    /\ instances[2].argument = CustomPrefix
    /\ instances[1].segments # instances[2].segments
    /\ instances[1].edited_chapters # instances[2].edited_chapters

(***************************************************************************)
(* What the properties of VideoChapterTrimmer.run speak about.             *)
(***************************************************************************)
RunReturned == rpc = "returned"
\* the positions in the log of the calls of one kind
EventsOf(kind) == {k \in 1..Len(run_events) : run_events[k].ev = kind}
\* the run was a trim run that got as far as extracting
Declined ==
    run_env.output_exists /\ ~run_args.dry_run /\ ~run_env.confirm

(***************************************************************************)
(* C26: in a trim run the segments are extracted one at a time in the      *)
(* order of the segment list, merge_segments is invoked once, only after   *)
(* every extraction has completed, with the segment files in that order,   *)
(* and the edited chapter file is generated only after the merge has       *)
(* completed.                                                              *)
(***************************************************************************)
C26_ExtractMergeChapters ==
    /\ \A k \in EventsOf("extract") :
          /\ \A j \in 1..k : run_events[j].ev = "extract"
          /\ run_events[k].n = k - 1
          /\ run_events[k].segment = run_segments[k]
          /\ \A j \in 1..(k - 1) : run_events[j].ok
    /\ Cardinality(EventsOf("merge")) <= 1
    /\ \A k \in EventsOf("merge") :
          /\ k = Len(run_segments) + 1
          /\ \A j \in 1..(k - 1) :
                run_events[j].ev = "extract" /\ run_events[j].ok
          /\ Len(run_events[k].files) = Len(run_segments)
          /\ \A j \in 1..(k - 1) :
                run_events[k].files[j].num = run_events[j].n
    /\ \A k \in EventsOf("generate") \cup EventsOf("write") :
          \E j \in 1..(k - 1) :
              run_events[j].ev = "merge" /\ run_events[j].ok
    /\ (RunReturned /\ exit_code = 0 /\ ~run_args.split /\ ~Declined)
          => Cardinality(EventsOf("merge")) = 1

\* a trim run of two segments has returned 0 with its chapter file written
C26_Witness ==
    /\ RunReturned
    /\ exit_code = 0
    /\ Len(run_segments) = 2
    /\ Len(run_events) = 5
    /\ run_events[3].ev = "merge"
    /\ run_events[5].ev = "write"

\* the chapter file parse_file accepts: every line a marker in range
RunFileAccepted ==
    /\ run_env.chapter_file # <<>>
    /\ \A k \in 1..Len(run_env.chapter_file) :
          WellFormed(run_env.chapter_file[k])

\* the run was not cut short by Ctrl-C
NotInterrupted == exit_code # 130

(***************************************************************************)
(* C27: run aborts on failure: if the chapter file or the video file is    *)
(* missing, if parsing fails, if a trim run has no segment, or if an       *)
(* extraction or the merge fails, run returns 1 and performs no later      *)
(* step (no further extraction, no merge, no chapter file written); it     *)
(* never returns 0.                                                        *)
(***************************************************************************)
C27_AbortOnFailure ==
    /\ (RunReturned /\ NotInterrupted
        /\ (\/ ~run_env.chapter_exists
            \/ ~run_env.video_exists
            \/ ~RunFileAccepted
            \/ ~run_args.split /\ run_segments = <<>>))
          => exit_code = 1 /\ run_events = <<>>
    /\ \A k \in 1..Len(run_events) :
          ~run_events[k].ok
             => /\ k = Len(run_events)
                /\ rpc \in {"finally", "returned"}
                /\ exit_code = 1

\* the second extraction of a trim run failed: run has returned 1
C27_Witness ==
    /\ RunReturned
    /\ exit_code = 1
    /\ Len(run_segments) = 2
    /\ Len(run_events) = 2
    /\ run_events[1].ok
    /\ run_events[2].ev = "extract"
    /\ ~run_events[2].ok

\* a chapter file that does not parse: run has returned 1
C27_WitnessParse ==
    /\ RunReturned
    /\ exit_code = 1
    /\ run_env.chapter_exists
    /\ run_env.video_exists
    /\ ~RunFileAccepted

(***************************************************************************)
(* C28: after run has returned, by whatever path, a temporary directory    *)
(* the tool created itself no longer exists unless --keep-temp was given,  *)
(* and a temporary directory supplied by the user is never removed.        *)
(***************************************************************************)
C28_TempDirectory ==
    /\ (RunReturned /\ ~run_args.temp_dir /\ ~run_args.keep_temp)
          => ~temp_dir.exists
    /\ (rpc \notin {"off", "new"}
        /\ (run_args.temp_dir \/ run_args.keep_temp))
          => temp_dir.exists

\* a run interrupted during the extraction has returned 130, its own
\* temporary directory removed
C28_Witness ==
    /\ RunReturned
    /\ exit_code = 130
    /\ run_events # <<>>
    /\ ~run_args.temp_dir
    /\ ~run_args.keep_temp
    /\ ~temp_dir.exists

\* a run with a temporary directory of the user has returned
C28_WitnessUser ==
    /\ RunReturned
    /\ exit_code = 0
    /\ run_args.temp_dir
    /\ ~run_args.keep_temp
    /\ temp_dir.exists

====
